---- MODULE Spec2Model ----
(***************************************************************************)
(* Model of codex-mcp-tool: the Codex CLI command builder, the model and   *)
(* version resolvers it consults, the in-memory session store and the      *)
(* ask-codex / list-sessions tools that drive them.                        *)
(*                                                                         *)
(* JavaScript values: an absent (undefined) string option is "", which the *)
(* code cannot tell from undefined because it tests truthiness; an absent  *)
(* number is 0; an absent boolean is FALSE unless the code compares with   *)
(* "!== false".  The JavaScript value undefined used as a model name is    *)
(* the string UNDEFINED.                                                    *)
(***************************************************************************)
EXTENDS Integers, Sequences, FiniteSets, TLC

VARIABLES
    now,            \* Date.now(), in abstract time units
    sessionStore,   \* sessionStorage.ts: Map<string, SessionData>, in insertion order
    modelCache,     \* modelDetection.ts: modelAvailabilityCache
    tempFiles,      \* prompt temp files present in os.tmpdir()
    build,          \* the CodexCommandBuilder.build call of the step just taken and
                    \* its BuildResult, Idle when the step built no command
    inflight,       \* ask-codex calls suspended in executeCodex
    lastOp,         \* the last session-store call and what it returned
    genCount,       \* number of ids generateSessionId has handed out
    created,        \* history: number of session records created so far
    expected        \* history: per session id, the conversation id an ask-codex
                    \* call recorded for it since its record was last removed

vars == <<now, sessionStore, modelCache, tempFiles, build, inflight, lastOp,
          genCount, created, expected>>

----------------------------------------------------------------------------
(* Bounds of the model *)

\* at most this many options differ from their defaults in one build
MaxSet == 3
\* the clock stops advancing here
MaxTime == 3
\* generateSessionId hands out at most this many ids
MaxGen == 2
\* ask-codex calls that may be suspended at once
MaxInflight == 2
\* builds begun on the two builder instances of the shared-instance model
MaxBuilds == 2
\* retry attempts counted one by one; two far greater ones are added to them
MaxAttempt == 8

----------------------------------------------------------------------------
(* constants.ts *)

UNDEFINED == "undefined"

MODELS == [GPT5_3_CODEX |-> "gpt-5.3-codex", GPT5_2_CODEX |-> "gpt-5.2-codex",
           GPT5_1_CODEX_MAX |-> "gpt-5.1-codex-max",
           GPT5_1_CODEX_MINI |-> "gpt-5.1-codex-mini", GPT5_2 |-> "gpt-5.2"]

\* MODELS.<key>: a key the object does not have reads as undefined
ModelsGet(key) == IF key \in DOMAIN MODELS THEN MODELS[key] ELSE UNDEFINED

FLAGS == [MODEL |-> "-m", FULL_AUTO |-> "--full-auto",
          ASK_FOR_APPROVAL |-> "--ask-for-approval", SANDBOX_MODE |-> "--sandbox",
          APPROVAL |-> "-a", YOLO |-> "--dangerously-bypass-approvals-and-sandbox",
          CD |-> "--cd", IMAGE |-> "-i", PROFILE |-> "--profile", CONFIG |-> "-c",
          WORKING_DIR |-> "-C", OSS |-> "--oss", LOCAL_PROVIDER |-> "--local-provider",
          ENABLE |-> "--enable", DISABLE |-> "--disable", SEARCH |-> "--search",
          ADD_DIR |-> "--add-dir", RESUME |-> "resume"]

----------------------------------------------------------------------------
(* versionDetection.ts *)

FEATURE_VERSIONS ==
    [NATIVE_SEARCH |-> [major |-> 0, minor |-> 52, patch |-> 0],
     TOOL_TOKEN_LIMIT |-> [major |-> 0, minor |-> 59, patch |-> 0],
     ADD_DIR |-> [major |-> 0, minor |-> 59, patch |-> 0],
     WINDOWS_AGENT |-> [major |-> 0, minor |-> 59, patch |-> 0],
     GPT5_1_MODELS |-> [major |-> 0, minor |-> 56, patch |-> 0]]

\* the RESUME gate (exported by the full versionDetection.ts; the builder and the
\* health tool name its threshold, Codex CLI v0.36.0)
RESUME_VERSION == [major |-> 0, minor |-> 36, patch |-> 0]

compareVersions(v1, v2) ==
    IF v1.major # v2.major THEN v1.major - v2.major
    ELSE IF v1.minor # v2.minor THEN v1.minor - v2.minor
    ELSE v1.patch - v2.patch

meetsMinVersion_ignoreValidity(version, minVersion) ==
    compareVersions(version, minVersion) >= 0

meetsMinVersion(version, minVersion) ==
    IF ~version.isValid THEN FALSE
    ELSE compareVersions(version, minVersion) >= 0

isFeatureAvailable(version, featureName) ==
    meetsMinVersion(version, FEATURE_VERSIONS[featureName])

supportsNativeSearch(version) == isFeatureAvailable(version, "NATIVE_SEARCH")
supportsAddDir(version) == isFeatureAvailable(version, "ADD_DIR")
supportsToolTokenLimit(version) == isFeatureAvailable(version, "TOOL_TOKEN_LIMIT")
supportsResume(version) == meetsMinVersion(version, RESUME_VERSION)

Ver(ma, mi, pa) == [major |-> ma, minor |-> mi, patch |-> pa, isValid |-> TRUE]
InvalidVersion == [major |-> 0, minor |-> 0, patch |-> 0, isValid |-> FALSE]

\* what getCodexVersion can return for the installed tool
InstalledVersions ==
    {InvalidVersion, Ver(0, 35, 9), Ver(0, 36, 0), Ver(0, 52, 0), Ver(0, 59, 0)}

----------------------------------------------------------------------------
(* modelDetection.ts *)

\* 5 minutes, in the model's time units
CACHE_TTL_MS == 2

DEFAULT_MODEL_FALLBACK ==
    <<ModelsGet("GPT5_1_CODEX_MAX"), ModelsGet("GPT5_CODEX"), ModelsGet("GPT5")>>

\* names whose availability a call can ask for
ProbeTargets == {MODELS[k] : k \in DOMAIN MODELS} \cup {UNDEFINED}

CachePut(cache, name, entry) ==
    [m \in (DOMAIN cache) \cup {name} |-> IF m = name THEN entry ELSE cache[m]]

\* r is the resolver's running state: the cache, the executor calls made so far,
\* and the value the last call returned.  env.probe[name] is what the executor
\* does for that model: "ok" (the test run succeeds), "rejected" (the test run
\* fails and codex --version succeeds), "broken" (both fail).
\* isModelAvailable mutated: a cached answer is used whatever its age
isModelAvailable_noTtl(r, modelName, bypassCache, env) ==
    IF ~bypassCache /\ modelName \in DOMAIN r.cache
    THEN [r EXCEPT !.available = r.cache[modelName].available]
    ELSE IF env.probe[modelName] = "ok"
    THEN [r EXCEPT !.calls = Append(@, "modelTest:" \o modelName),
                   !.cache = CachePut(@, modelName,
                                      [available |-> TRUE, timestamp |-> env.now]),
                   !.available = TRUE]
    ELSE IF env.probe[modelName] = "rejected"
    THEN [r EXCEPT !.calls = @ \o <<"modelTest:" \o modelName, "cliCheck">>,
                   !.cache = CachePut(@, modelName,
                                      [available |-> FALSE, timestamp |-> env.now]),
                   !.available = FALSE]
    ELSE [r EXCEPT !.calls = @ \o <<"modelTest:" \o modelName, "cliCheck">>,
                   !.available = FALSE]

\* isModelAvailable mutated: a tool that does not run is cached as a rejection
isModelAvailable_cacheBroken(r, modelName, bypassCache, env) ==
    IF ~bypassCache /\ modelName \in DOMAIN r.cache
       /\ env.now - r.cache[modelName].timestamp < CACHE_TTL_MS
    THEN [r EXCEPT !.available = r.cache[modelName].available]
    ELSE IF env.probe[modelName] = "ok"
    THEN [r EXCEPT !.calls = Append(@, "modelTest:" \o modelName),
                   !.cache = CachePut(@, modelName,
                                      [available |-> TRUE, timestamp |-> env.now]),
                   !.available = TRUE]
    ELSE [r EXCEPT !.calls = @ \o <<"modelTest:" \o modelName, "cliCheck">>,
                   !.cache = CachePut(@, modelName,
                                      [available |-> FALSE, timestamp |-> env.now]),
                   !.available = FALSE]

\* isModelAvailable mutated: an entry that exists is not overwritten
isModelAvailable_firstWriter(r, modelName, bypassCache, env) ==
    IF ~bypassCache /\ modelName \in DOMAIN r.cache
       /\ env.now - r.cache[modelName].timestamp < CACHE_TTL_MS
    THEN [r EXCEPT !.available = r.cache[modelName].available]
    ELSE IF env.probe[modelName] = "broken"
    THEN [r EXCEPT !.calls = @ \o <<"modelTest:" \o modelName, "cliCheck">>,
                   !.available = FALSE]
    ELSE [r EXCEPT !.calls = Append(@, "modelTest:" \o modelName),
                   !.cache = IF modelName \in DOMAIN @ THEN @
                             ELSE CachePut(@, modelName,
                                           [available |-> env.probe[modelName] = "ok",
                                            timestamp |-> env.now]),
                   !.available = env.probe[modelName] = "ok"]

isModelAvailable(r, modelName, bypassCache, env) ==
    IF ~bypassCache /\ modelName \in DOMAIN r.cache
       /\ env.now - r.cache[modelName].timestamp < CACHE_TTL_MS
    THEN [r EXCEPT !.available = r.cache[modelName].available]
    ELSE IF env.probe[modelName] = "ok"
    THEN [r EXCEPT !.calls = Append(@, "modelTest:" \o modelName),
                   !.cache = CachePut(@, modelName,
                                      [available |-> TRUE, timestamp |-> env.now]),
                   !.available = TRUE]
    ELSE IF env.probe[modelName] = "rejected"
    THEN [r EXCEPT !.calls = @ \o <<"modelTest:" \o modelName, "cliCheck">>,
                   !.cache = CachePut(@, modelName,
                                      [available |-> FALSE, timestamp |-> env.now]),
                   !.available = FALSE]
    ELSE [r EXCEPT !.calls = @ \o <<"modelTest:" \o modelName, "cliCheck">>,
                   !.available = FALSE]

RECURSIVE getDefaultModelFrom(_, _, _)
getDefaultModelFrom(i, r, env) ==
    IF i > Len(DEFAULT_MODEL_FALLBACK)
    THEN [r EXCEPT !.model = ModelsGet("GPT5_CODEX")]
    ELSE LET r2 == isModelAvailable(r, DEFAULT_MODEL_FALLBACK[i], FALSE, env)
         IN  IF r2.available THEN [r2 EXCEPT !.model = DEFAULT_MODEL_FALLBACK[i]]
             ELSE getDefaultModelFrom(i + 1, r2, env)

getDefaultModel(r, env) == getDefaultModelFrom(1, r, env)

isValidModel(modelName) == modelName \in {MODELS[k] : k \in DOMAIN MODELS}

getModelWithFallback(r, requestedModel, env) ==
    IF requestedModel = "" THEN getDefaultModel(r, env)
    ELSE IF ~isValidModel(requestedModel) THEN getDefaultModel(r, env)
    ELSE LET r2 == isModelAvailable(r, requestedModel, FALSE, env)
         IN  IF ~r2.available THEN getDefaultModel(r2, env)
             ELSE [r2 EXCEPT !.model = requestedModel]

----------------------------------------------------------------------------
(* workingDirResolver.ts, over a small file system *)

FsDirs == {"/", "/repo", "/repo/pkg", "/other"}
FsFiles == {"/other/x.ts"}
\* directories holding one of PROJECT_MARKERS
FsProjectRoots == {"/repo", "/other"}
\* process.cwd()
ProcessCwd == "/repo"

dirname(path) ==
    CASE path = "/repo/pkg" -> "/repo"
      [] path = "/other/x.ts" -> "/other"
      [] OTHER -> "/"

isAbsolute(path) == path # "" /\ SubSeq(path, 1, 1) = "/"

resolve(baseDir, path) == IF isAbsolute(path) THEN path ELSE baseDir \o "/" \o path

\* "" stands for undefined
ensureDirectory(path, baseDir) ==
    IF path = "" THEN ""
    ELSE LET absolutePath == resolve(baseDir, path)
         IN  IF absolutePath \in FsDirs THEN absolutePath
             ELSE IF absolutePath \in FsFiles THEN dirname(absolutePath)
             ELSE ""

MAX_WALK_UP_LEVELS == 10

RECURSIVE findProjectRootFrom(_, _, _)
findProjectRootFrom(startPath, currentDir, levelsWalked) ==
    IF levelsWalked >= MAX_WALK_UP_LEVELS THEN ensureDirectory(startPath, ProcessCwd)
    ELSE IF currentDir \in FsProjectRoots THEN currentDir
    ELSE IF dirname(currentDir) = currentDir THEN ensureDirectory(startPath, ProcessCwd)
    ELSE findProjectRootFrom(startPath, dirname(currentDir), levelsWalked + 1)

findProjectRoot(startPath) ==
    LET currentDir == ensureDirectory(startPath, ProcessCwd)
    IN  IF currentDir = "" THEN startPath
        ELSE findProjectRootFrom(startPath, currentDir, 0)

\* the @path references of the prompts the model uses
extractPathFromAtSyntax(prompt, baseDir) ==
    CASE prompt = "@/other/x.ts fix" -> <<"/other/x.ts">>
      [] prompt = "@/gone/y.ts fix" -> <<"/gone/y.ts">>
      [] OTHER -> <<>>

RECURSIVE FirstNonEmpty(_)
FirstNonEmpty(seq) ==
    IF seq = <<>> THEN ""
    ELSE IF Head(seq) # "" THEN Head(seq)
    ELSE FirstNonEmpty(Tail(seq))

RECURSIVE FirstValidDir(_, _)
FirstValidDir(seq, baseDir) ==
    IF seq = <<>> THEN ""
    ELSE IF ensureDirectory(Head(seq), baseDir) # "" THEN ensureDirectory(Head(seq), baseDir)
    ELSE FirstValidDir(Tail(seq), baseDir)

RECURSIVE FirstInferredRoot(_)
FirstInferredRoot(paths) ==
    IF paths = <<>> THEN ""
    ELSE IF Head(paths) \in FsDirs \cup FsFiles /\ findProjectRoot(Head(paths)) # ""
         THEN findProjectRoot(Head(paths))
    ELSE FirstInferredRoot(Tail(paths))

\* envVars = <<CODEX_MCP_CWD, PWD, INIT_CWD>>, "" when unset
resolveWorkingDirectory(workingDir, prompt, envVars) ==
    LET baseDir == IF FirstNonEmpty(envVars) # "" THEN FirstNonEmpty(envVars)
                   ELSE ProcessCwd
    IN  IF ensureDirectory(workingDir, baseDir) # "" THEN ensureDirectory(workingDir, baseDir)
        ELSE IF FirstValidDir(envVars, ProcessCwd) # "" THEN FirstValidDir(envVars, ProcessCwd)
        ELSE IF FirstInferredRoot(extractPathFromAtSyntax(prompt, baseDir)) # ""
             THEN FirstInferredRoot(extractPathFromAtSyntax(prompt, baseDir))
        ELSE ProcessCwd

----------------------------------------------------------------------------
(* codexCommandBuilder.ts *)

NoConfig == [kind |-> "none", text |-> "", entries |-> <<>>]

\* CodexCommandBuilderOptions with nothing set
DefaultOptions ==
    [model |-> "", fullAuto |-> FALSE, approvalPolicy |-> "", sandboxMode |-> "",
     approval |-> "", yolo |-> FALSE, cd |-> "", workingDir |-> "", config |-> NoConfig,
     profile |-> "", image |-> <<>>, search |-> FALSE, oss |-> FALSE,
     localProvider |-> "", enableFeatures |-> <<>>, disableFeatures |-> <<>>,
     addDirsGiven |-> FALSE, addDirs |-> <<>>, toolOutputTokenLimit |-> 0,
     reasoningEffort |-> "", useExec |-> TRUE, concisePrompt |-> FALSE,
     useStdinForLongPrompts |-> TRUE, codexConversationId |-> "", changeMode |-> FALSE]

\* what the collaborators do during one build
DefaultEnv ==
    [version |-> Ver(0, 59, 0), probe |-> [m \in ProbeTargets |-> "ok"],
     envVars |-> <<"", "", "">>, writeOk |-> TRUE, rand |-> "a1b2", now |-> 0]

\* a prompt is its text and its length in characters; a long text is abbreviated
ShortPrompt == [text |-> "hi", length |-> 2]

\* new CodexCommandBuilder(), then the two resets at the top of build
FreshBuilder(cache, files) ==
    [args |-> <<>>, useResumeMode |-> FALSE, calls |-> <<>>, cache |-> cache,
     available |-> FALSE, model |-> "", threw |-> FALSE, tempFile |-> "",
     finalPrompt |-> [text |-> "", length |-> 0], files |-> files]

Push(b, tokens) == [b EXCEPT !.args = @ \o tokens]

RECURSIVE FlagEach(_, _)
FlagEach(flag, values) ==
    IF values = <<>> THEN <<>>
    ELSE <<flag, Head(values)>> \o FlagEach(flag, Tail(values))

Includes(seq, x) == \E i \in 1..Len(seq) : seq[i] = x

\* the validation mutated: the sandboxMode conflict is not checked
validateOptions_noSandboxCheck(options) ==
    options.approvalPolicy # "" /\ options.yolo

\* TRUE when validateOptions throws
validateOptions(options) ==
    \/ options.approvalPolicy # "" /\ options.yolo
    \/ options.sandboxMode # "" /\ options.yolo

\* the resume decision mutated: the version gate is not consulted
checkResumeMode_noGate(b, options, env) ==
    IF options.codexConversationId # "" THEN [b EXCEPT !.useResumeMode = TRUE] ELSE b

checkResumeMode(b, options, env) ==
    IF options.codexConversationId # ""
    THEN LET b2 == [b EXCEPT !.calls = Append(@, "getCodexVersion")]
         IN  IF supportsResume(env.version) THEN [b2 EXCEPT !.useResumeMode = TRUE]
             ELSE b2
    ELSE b

\* the model step mutated: the resolver is asked in OSS/local mode too
addModelArg_validate(b, model, skipValidation, env) ==
    LET r == getModelWithFallback(b, model, env)
    IN  Push(r, <<FLAGS.MODEL, r.model>>)

addModelArg(b, model, skipValidation, env) ==
    IF skipValidation
    THEN IF model # "" THEN Push(b, <<FLAGS.MODEL, model>>) ELSE b
    ELSE LET r == getModelWithFallback(b, model, env)
         IN  Push(r, <<FLAGS.MODEL, r.model>>)

\* the safety step mutated: two independent tests instead of an else-if chain
addSafetyArgs_noElse(b, options) ==
    LET b1 == IF options.yolo THEN Push(b, <<FLAGS.YOLO>>) ELSE b
        b2 == IF options.fullAuto THEN Push(b1, <<FLAGS.FULL_AUTO>>) ELSE b1
    IN  IF options.approval # "" THEN Push(b2, <<FLAGS.APPROVAL, options.approval>>)
        ELSE b2

\* the safety step mutated: the automatic sandbox mode is tested before the
\* explicit one
addSafetyArgs_autoFirst(b, options) ==
    IF options.yolo THEN Push(b, <<FLAGS.YOLO>>)
    ELSE IF options.fullAuto THEN Push(b, <<FLAGS.FULL_AUTO>>)
    ELSE LET b1 == IF options.approvalPolicy # ""
                   THEN Push(b, <<FLAGS.ASK_FOR_APPROVAL, options.approvalPolicy>>)
                   ELSE IF options.approval # ""
                   THEN Push(b, <<FLAGS.APPROVAL, options.approval>>)
                   ELSE b
         IN  IF options.search \/ options.oss \/ options.localProvider # ""
             THEN Push(b1, <<FLAGS.SANDBOX_MODE, "workspace-write">>)
             ELSE IF options.sandboxMode # ""
             THEN Push(b1, <<FLAGS.SANDBOX_MODE, options.sandboxMode>>)
             ELSE b1

addSafetyArgs(b, options) ==
    IF options.yolo THEN Push(b, <<FLAGS.YOLO>>)
    ELSE IF options.fullAuto THEN Push(b, <<FLAGS.FULL_AUTO>>)
    ELSE LET b1 == IF options.approvalPolicy # ""
                   THEN Push(b, <<FLAGS.ASK_FOR_APPROVAL, options.approvalPolicy>>)
                   ELSE IF options.approval # ""
                   THEN Push(b, <<FLAGS.APPROVAL, options.approval>>)
                   ELSE b
         IN  IF options.sandboxMode # ""
             THEN Push(b1, <<FLAGS.SANDBOX_MODE, options.sandboxMode>>)
             ELSE IF options.search \/ options.oss \/ options.localProvider # ""
             THEN Push(b1, <<FLAGS.SANDBOX_MODE, "workspace-write">>)
             ELSE b1

addWorkingDir(b, options, prompt, env) ==
    LET resolvedWorkingDir ==
            resolveWorkingDirectory(
                IF options.workingDir # "" THEN options.workingDir ELSE options.cd,
                prompt.text, env.envVars)
        b1 == [b EXCEPT !.calls = Append(@, "resolveWorkingDirectory")]
    IN  IF resolvedWorkingDir # ""
        THEN Push(b1, <<IF options.cd # "" THEN FLAGS.CD ELSE FLAGS.WORKING_DIR,
                        resolvedWorkingDir>>)
        ELSE b1

\* the search step mutated: the feature flag is requested only when the native
\* flag is not available
addSearchAndFeatures_nativeOnly(b, options, env) ==
    IF options.search
    THEN IF supportsNativeSearch(env.version)
         THEN Push(b, <<FLAGS.SEARCH>> \o FlagEach(FLAGS.ENABLE, options.enableFeatures))
         ELSE Push(b, FlagEach(FLAGS.ENABLE,
                               IF Includes(options.enableFeatures, "web_search_request")
                               THEN options.enableFeatures
                               ELSE Append(options.enableFeatures, "web_search_request")))
    ELSE Push(b, FlagEach(FLAGS.ENABLE, options.enableFeatures))

addSearchAndFeatures(b, options, env) ==
    IF options.search
    THEN LET b1 == [b EXCEPT !.calls = Append(@, "getCodexVersion")]
             b2 == IF supportsNativeSearch(env.version) THEN Push(b1, <<FLAGS.SEARCH>>)
                   ELSE b1
             enableFeatures ==
                 IF Includes(options.enableFeatures, "web_search_request")
                 THEN options.enableFeatures
                 ELSE Append(options.enableFeatures, "web_search_request")
         IN  Push(b2, FlagEach(FLAGS.ENABLE, enableFeatures))
    ELSE Push(b, FlagEach(FLAGS.ENABLE, options.enableFeatures))

addDisableFeatures(b, options) == Push(b, FlagEach(FLAGS.DISABLE, options.disableFeatures))

\* the advanced step mutated: --add-dir is emitted without asking the version
addAdvancedFeatures_ungated(b, options, env) ==
    LET b1 == IF options.addDirsGiven
              THEN Push(b, FlagEach(FLAGS.ADD_DIR, options.addDirs))
              ELSE b
    IN  IF options.toolOutputTokenLimit # 0
        THEN LET c == [b1 EXCEPT !.calls = Append(@, "getCodexVersion")]
             IN  IF supportsToolTokenLimit(env.version)
                 THEN Push(c, <<FLAGS.CONFIG, "tool_output_token_limit="
                                   \o ToString(options.toolOutputTokenLimit)>>)
                 ELSE c
        ELSE b1

addAdvancedFeatures(b, options, env) ==
    LET b1 == IF options.addDirsGiven
              THEN LET c == [b EXCEPT !.calls = Append(@, "getCodexVersion")]
                   IN  IF supportsAddDir(env.version)
                       THEN Push(c, FlagEach(FLAGS.ADD_DIR, options.addDirs))
                       ELSE c
              ELSE b
    IN  IF options.toolOutputTokenLimit # 0
        THEN LET c == [b1 EXCEPT !.calls = Append(@, "getCodexVersion")]
             IN  IF supportsToolTokenLimit(env.version)
                 THEN Push(c, <<FLAGS.CONFIG, "tool_output_token_limit="
                                   \o ToString(options.toolOutputTokenLimit)>>)
                 ELSE c
        ELSE b1

validEfforts == <<"low", "medium", "high", "xhigh">>

addReasoningEffort(b, options) ==
    IF options.reasoningEffort # "" /\ Includes(validEfforts, options.reasoningEffort)
    THEN Push(b, <<FLAGS.CONFIG,
                   "model_reasoning_effort=\"" \o options.reasoningEffort \o "\"">>)
    ELSE b

RECURSIVE JoinEntries(_)
JoinEntries(entries) ==
    IF entries = <<>> THEN ""
    ELSE Head(entries)[1] \o "=" \o Head(entries)[2]
         \o (IF Len(entries) > 1 THEN "," ELSE "") \o JoinEntries(Tail(entries))

addConfig(b, options) ==
    IF options.config.kind = "string" /\ options.config.text # ""
    THEN Push(b, <<FLAGS.CONFIG, options.config.text>>)
    ELSE IF options.config.kind = "object"
    THEN Push(b, <<FLAGS.CONFIG, JoinEntries(options.config.entries)>>)
    ELSE b

addProfile(b, options) ==
    IF options.profile # "" THEN Push(b, <<FLAGS.PROFILE, options.profile>>) ELSE b

addImages(b, options) == Push(b, FlagEach(FLAGS.IMAGE, options.image))

addCommandMode(b, options) ==
    IF b.useResumeMode /\ options.codexConversationId # ""
    THEN Push(b, <<"exec", FLAGS.RESUME, options.codexConversationId>>)
    ELSE IF options.useExec THEN Push(b, <<"exec">>)
    ELSE b

\* the provider step mutated: resume mode is not looked at
addOssMode_always(b, options) ==
    IF options.oss \/ options.localProvider # ""
    THEN LET b1 == Push(b, <<FLAGS.OSS>>)
         IN  IF options.localProvider # ""
             THEN Push(b1, <<FLAGS.LOCAL_PROVIDER, options.localProvider>>)
             ELSE b1
    ELSE b

addOssMode(b, options) ==
    IF options.oss \/ options.localProvider # ""
    THEN IF b.useResumeMode
         THEN IF options.localProvider # ""
              THEN Push(b, <<FLAGS.CONFIG, "model_provider=" \o options.localProvider>>)
              ELSE b
         ELSE LET b1 == Push(b, <<FLAGS.OSS>>)
              IN  IF options.localProvider # ""
                  THEN Push(b1, <<FLAGS.LOCAL_PROVIDER, options.localProvider>>)
                  ELSE b1
    ELSE b

\* the code fence of the instruction block is written with three quote marks
CHANGE_MODE_INSTRUCTIONS ==
    "IMPORTANT: Format ALL code changes using this exact structure for each edit:\n\n"
    \o "**FILE: path/to/file.ts:LINE_NUMBER**\n" \o "'''\n" \o "OLD:\n"
    \o "[exact original code]\n" \o "NEW:\n" \o "[replacement code]\n" \o "'''\n\n"
    \o "Provide one block per edit. Include the exact original code that should be replaced.\n\n"

CONCISE_INSTRUCTION ==
    "Please provide a focused, concise response without unnecessary elaboration. "

Prepend(instruction, prompt) ==
    [text |-> instruction \o prompt.text, length |-> Len(instruction) + prompt.length]

MAX_COMMAND_LINE_LENGTH == 100000

\* the prompt step mutated: the length tested is that of the caller's prompt
handlePrompt_rawLength(b, prompt, options, env) ==
    LET p1 == IF options.changeMode THEN Prepend(CHANGE_MODE_INSTRUCTIONS, prompt)
              ELSE prompt
        finalPrompt == IF options.concisePrompt THEN Prepend(CONCISE_INSTRUCTION, prompt)
                       ELSE p1
        tempFilePath == "/tmp/codex-prompt-" \o env.rand \o ".txt"
        b1 == [b EXCEPT !.finalPrompt = finalPrompt]
    IN  IF options.useStdinForLongPrompts /\ prompt.length > MAX_COMMAND_LINE_LENGTH
        THEN IF env.writeOk
             THEN [Push(b1, <<"@" \o tempFilePath>>) EXCEPT
                      !.calls = Append(@, "writeFileSync"),
                      !.tempFile = tempFilePath, !.files = @ \cup {tempFilePath}]
             ELSE [Push(b1, <<finalPrompt.text>>) EXCEPT
                      !.calls = Append(@, "writeFileSync")]
        ELSE Push(b1, <<finalPrompt.text>>)

\* the prompt step mutated: a failing writeFileSync is not caught
handlePrompt_noCatch(b, prompt, options, env) ==
    LET p1 == IF options.changeMode THEN Prepend(CHANGE_MODE_INSTRUCTIONS, prompt)
              ELSE prompt
        finalPrompt == IF options.concisePrompt THEN Prepend(CONCISE_INSTRUCTION, prompt)
                       ELSE p1
        tempFilePath == "/tmp/codex-prompt-" \o env.rand \o ".txt"
        b1 == [b EXCEPT !.finalPrompt = finalPrompt]
    IN  IF options.useStdinForLongPrompts /\ finalPrompt.length > MAX_COMMAND_LINE_LENGTH
        THEN IF env.writeOk
             THEN [Push(b1, <<"@" \o tempFilePath>>) EXCEPT
                      !.calls = Append(@, "writeFileSync"),
                      !.tempFile = tempFilePath, !.files = @ \cup {tempFilePath}]
             ELSE [b1 EXCEPT !.calls = Append(@, "writeFileSync"), !.threw = TRUE]
        ELSE Push(b1, <<finalPrompt.text>>)

handlePrompt(b, prompt, options, env) ==
    LET p1 == IF options.changeMode THEN Prepend(CHANGE_MODE_INSTRUCTIONS, prompt)
              ELSE prompt
        finalPrompt == IF options.concisePrompt THEN Prepend(CONCISE_INSTRUCTION, prompt)
                       ELSE p1
        useStdin == options.useStdinForLongPrompts
                    /\ finalPrompt.length > MAX_COMMAND_LINE_LENGTH
        tempFilePath == "/tmp/codex-prompt-" \o env.rand \o ".txt"
        b1 == [b EXCEPT !.finalPrompt = finalPrompt]
    IN  IF useStdin
        THEN LET b2 == [b1 EXCEPT !.calls = Append(@, "writeFileSync")]
             IN  IF env.writeOk
                 THEN [Push(b2, <<"@" \o tempFilePath>>) EXCEPT
                          !.tempFile = tempFilePath, !.files = @ \cup {tempFilePath}]
                 ELSE Push(b2, <<finalPrompt.text>>)
        ELSE Push(b1, <<finalPrompt.text>>)

\* CodexCommandBuilder.cleanupTempFile: unlinkSync, whose failure is logged and
\* not rethrown; unlinkOk is whether unlinkSync succeeds
cleanupTempFile(files, tempFile, unlinkOk) ==
    IF unlinkOk THEN files \ {tempFile} ELSE files

\* CodexCommandBuilder.build on a new builder: the builder's final state, with
\* threw = TRUE when build throws
buildCommand(prompt, options, env, cache, files) ==
    LET b0 == FreshBuilder(cache, files)
    IN  IF validateOptions(options) THEN [b0 EXCEPT !.threw = TRUE]
        ELSE LET b1 == checkResumeMode(b0, options, env)
                 b2 == addModelArg(b1, options.model,
                                   options.oss \/ options.localProvider # "", env)
                 b3 == addSafetyArgs(b2, options)
                 b4 == addWorkingDir(b3, options, prompt, env)
                 b5 == addSearchAndFeatures(b4, options, env)
                 b6 == addDisableFeatures(b5, options)
                 b7 == addAdvancedFeatures(b6, options, env)
                 b8 == addReasoningEffort(b7, options)
                 b9 == addConfig(b8, options)
                 b10 == addProfile(b9, options)
                 b11 == addImages(b10, options)
                 b12 == addCommandMode(b11, options)
                 b13 == addOssMode(b12, options)
             IN  handlePrompt(b13, prompt, options, env)

----------------------------------------------------------------------------
(* sessionStorage.ts *)

\* CODEX_SESSION_TTL_MS and CODEX_MAX_SESSIONS as the process is configured
SESSION_TTL_MS == 1
MAX_SESSIONS == 2

NullSession ==
    [sessionId |-> "", workspaceId |-> "", codexConversationId |-> "", lastPrompt |-> "",
     lastResponse |-> "", model |-> "", workingDir |-> "", createdAt |-> 0, updatedAt |-> 0]

\* the fields of a Partial<SessionData> that a caller may supply
NoData ==
    [sessionId |-> "", workspaceId |-> "", codexConversationId |-> "", lastPrompt |-> "",
     lastResponse |-> "", model |-> "", workingDir |-> ""]

\* "" stands for null
findGitRoot(startPath) ==
    IF startPath \in {"/repo", "/repo/pkg"} THEN "/repo" ELSE ""

basename(path) ==
    CASE path = "/repo" -> "repo"
      [] path = "/repo/pkg" -> "pkg"
      [] path = "/other" -> "other"
      [] OTHER -> ""

\* head is the content of /repo/.git/HEAD
readGitHead(gitRoot, head) == IF gitRoot = "" THEN "" ELSE head

\* the first 12 hex digits of an MD5 digest, as a one-to-one function of its input
md5hex12(hashInput) == "md5(" \o hashInput \o ")"

generateWorkspaceId(workingDir, head) ==
    LET gitRoot == findGitRoot(workingDir)
        repoName == basename(IF gitRoot # "" THEN gitRoot ELSE workingDir)
        headContent == readGitHead(gitRoot, head)
    IN  md5hex12(repoName \o ":" \o headContent \o ":" \o workingDir)

\* ids are distinct by timestamp and random suffix; n counts the ids handed out
generateSessionId(n) == "ses_" \o ToString(n + 1)

Expired(session, t) == t - session.updatedAt > SESSION_TTL_MS

IndexOf(store, id) ==
    IF \E i \in 1..Len(store) : store[i].sessionId = id
    THEN CHOOSE i \in 1..Len(store) : store[i].sessionId = id
    ELSE 0

At(store, id) == store[IndexOf(store, id)]

\* the store holds an unexpired record of id at time t
Live(store, id, t) == IndexOf(store, id) > 0 /\ ~Expired(At(store, id), t)

Pick(store, indices) == [j \in 1..Len(indices) |-> store[indices[j]]]

Indices(n) == [i \in 1..n |-> i]

Ids(store) == {store[i].sessionId : i \in 1..Len(store)}

\* A store call's effect: the store after it, what it returned, and for the
\* history the number of records it created, the ids whose records it removed
\* (expired, deleted or cleared), and the records it dropped for capacity.
Result(store, ret) ==
    [store |-> store, ret |-> ret, made |-> 0, removed |-> {}, evicted |-> <<>>]

Then(first, second) ==
    [second EXCEPT !.made = @ + first.made, !.removed = @ \cup first.removed,
                   !.evicted = first.evicted \o @]

\* cleanupSessions mutated: the expired records are kept
cleanupSessions_noExpiry(store, t) ==
    LET n == Len(store)
        Rank(i) == Cardinality({j \in 1..n :
                        \/ store[j].updatedAt < store[i].updatedAt
                        \/ store[j].updatedAt = store[i].updatedAt /\ j < i})
        keep == SelectSeq(Indices(n), LAMBDA i : Rank(i) >= n - MAX_SESSIONS)
        drop == SelectSeq(Indices(n), LAMBDA i : Rank(i) < n - MAX_SESSIONS)
    IN  IF n > MAX_SESSIONS
        THEN [store |-> Pick(store, keep), ret |-> NullSession, made |-> 0,
              removed |-> {}, evicted |-> Pick(store, drop)]
        ELSE Result(store, NullSession)

cleanupSessions(store, t) ==
    LET live == SelectSeq(store, LAMBDA s : ~Expired(s, t))
        n == Len(live)
        \* position of live[i] in the stable sort by updatedAt, counted from 0
        Rank(i) == Cardinality({j \in 1..n :
                        \/ live[j].updatedAt < live[i].updatedAt
                        \/ live[j].updatedAt = live[i].updatedAt /\ j < i})
        keep == SelectSeq(Indices(n), LAMBDA i : Rank(i) >= n - MAX_SESSIONS)
        drop == SelectSeq(Indices(n), LAMBDA i : Rank(i) < n - MAX_SESSIONS)
    IN  IF n > MAX_SESSIONS
        THEN [store |-> Pick(live, keep), ret |-> NullSession, made |-> 0,
              removed |-> Ids(store) \ Ids(live), evicted |-> Pick(live, drop)]
        ELSE [store |-> live, ret |-> NullSession, made |-> 0,
              removed |-> Ids(store) \ Ids(live), evicted |-> <<>>]

Or(a, b) == IF a # "" THEN a ELSE b

\* saveSession mutated: a field the caller leaves out is not taken from the record
saveSession_noMerge(store, data, t) ==
    LET c == cleanupSessions(store, t)
        i == IndexOf(c.store, data.sessionId)
        session == [data EXCEPT !.sessionId = data.sessionId] @@
                   [createdAt |-> t, updatedAt |-> t]
    IN  Then(c, [store |-> IF i > 0 THEN [c.store EXCEPT ![i] = session]
                           ELSE Append(c.store, session),
                 ret |-> session, made |-> IF i > 0 THEN 0 ELSE 1,
                 removed |-> {}, evicted |-> <<>>])

saveSession(store, data, t) ==
    LET c == cleanupSessions(store, t)
        i == IndexOf(c.store, data.sessionId)
        existing == IF i > 0 THEN c.store[i] ELSE NullSession
        session ==
            [sessionId |-> data.sessionId,
             workspaceId |-> Or(data.workspaceId, existing.workspaceId),
             codexConversationId |->
                 Or(data.codexConversationId, existing.codexConversationId),
             lastPrompt |-> Or(data.lastPrompt, existing.lastPrompt),
             lastResponse |-> Or(data.lastResponse, existing.lastResponse),
             model |-> Or(data.model, existing.model),
             workingDir |-> Or(data.workingDir, existing.workingDir),
             createdAt |-> IF existing.createdAt # 0 THEN existing.createdAt ELSE t,
             updatedAt |-> t]
    IN  Then(c, [store |-> IF i > 0 THEN [c.store EXCEPT ![i] = session]
                           ELSE Append(c.store, session),
                 ret |-> session, made |-> IF i > 0 THEN 0 ELSE 1,
                 removed |-> {}, evicted |-> <<>>])

Without(store, i) == SubSeq(store, 1, i - 1) \o SubSeq(store, i + 1, Len(store))

\* getSession mutated: the expiry test is missing
getSession_noExpiry(store, sessionId, t) ==
    LET i == IndexOf(store, sessionId)
    IN  IF i = 0 THEN Result(store, NullSession) ELSE Result(store, store[i])

getSession(store, sessionId, t) ==
    LET i == IndexOf(store, sessionId)
    IN  IF i = 0 THEN Result(store, NullSession)
        ELSE IF Expired(store[i], t)
        THEN [Result(Without(store, i), NullSession) EXCEPT !.removed = {sessionId}]
        ELSE Result(store, store[i])

RECURSIVE MostRecentFrom(_, _, _, _)
MostRecentFrom(store, workspaceId, i, mostRecent) ==
    IF i > Len(store) THEN mostRecent
    ELSE IF store[i].workspaceId = workspaceId
            /\ (mostRecent.sessionId = "" \/ store[i].updatedAt > mostRecent.updatedAt)
    THEN MostRecentFrom(store, workspaceId, i + 1, store[i])
    ELSE MostRecentFrom(store, workspaceId, i + 1, mostRecent)

getSessionByWorkspace(store, workspaceId, t) ==
    LET c == cleanupSessions(store, t)
    IN  [c EXCEPT !.ret = MostRecentFrom(c.store, workspaceId, 1, NullSession)]

\* the SessionData a record spreads into a Partial<SessionData>
AsData(session) == [f \in DOMAIN NoData |-> session[f]]

\* getOrCreateSession mutated: a session of the workspace is preferred to the id
getOrCreateSession_workspaceFirst(store, workingDir, sessionId, t, head, n) ==
    LET workspaceId == generateWorkspaceId(workingDir, head)
        w == getSessionByWorkspace(store, workspaceId, t)
    IN  IF w.ret.sessionId # "" THEN w
        ELSE Then(w, saveSession(w.store,
                         [NoData EXCEPT !.sessionId = Or(sessionId, generateSessionId(n)),
                                        !.workspaceId = workspaceId,
                                        !.workingDir = workingDir], t))

\* getOrCreateSession mutated: a record found by id is saved again, which
\* refreshes its updatedAt
getOrCreateSession_refreshOnHit(store, workingDir, sessionId, t, head, n) ==
    LET workspaceId == generateWorkspaceId(workingDir, head)
    IN  IF sessionId # ""
        THEN LET g == getSession(store, sessionId, t)
             IN  IF g.ret.sessionId # ""
                 THEN Then(g, saveSession(g.store, AsData(g.ret), t))
                 ELSE Then(g, saveSession(g.store,
                                  [NoData EXCEPT !.sessionId = sessionId,
                                                 !.workspaceId = workspaceId,
                                                 !.workingDir = workingDir], t))
        ELSE LET w == getSessionByWorkspace(store, workspaceId, t)
             IN  IF w.ret.sessionId # "" THEN w
                 ELSE Then(w, saveSession(w.store,
                                  [NoData EXCEPT !.sessionId = generateSessionId(n),
                                                 !.workspaceId = workspaceId,
                                                 !.workingDir = workingDir], t))

getOrCreateSession(store, workingDir, sessionId, t, head, n) ==
    LET workspaceId == generateWorkspaceId(workingDir, head)
    IN  IF sessionId # ""
        THEN LET g == getSession(store, sessionId, t)
             IN  IF g.ret.sessionId # "" THEN g
                 ELSE Then(g, saveSession(g.store,
                                  [NoData EXCEPT !.sessionId = sessionId,
                                                 !.workspaceId = workspaceId,
                                                 !.workingDir = workingDir], t))
        ELSE LET w == getSessionByWorkspace(store, workspaceId, t)
             IN  IF w.ret.sessionId # "" THEN w
                 ELSE Then(w, saveSession(w.store,
                                  [NoData EXCEPT !.sessionId = generateSessionId(n),
                                                 !.workspaceId = workspaceId,
                                                 !.workingDir = workingDir], t))

setCodexConversationId(store, sessionId, conversationId, t) ==
    LET g == getSession(store, sessionId, t)
    IN  IF g.ret.sessionId # ""
        THEN [Then(g, saveSession(g.store,
                          [AsData(g.ret) EXCEPT !.codexConversationId = conversationId], t))
                EXCEPT !.ret = NullSession]
        ELSE g

\* ret.codexConversationId is the value returned, "" for undefined
getCodexConversationId(store, sessionId, t) == getSession(store, sessionId, t)

\* descending by updatedAt, stable
listSessions(store, t) ==
    LET c == cleanupSessions(store, t)
        n == Len(c.store)
        Rank(i) == Cardinality({j \in 1..n :
                        \/ c.store[j].updatedAt > c.store[i].updatedAt
                        \/ c.store[j].updatedAt = c.store[i].updatedAt /\ j < i})
    IN  [c EXCEPT !.ret = [k \in 1..n |->
                              c.store[CHOOSE i \in 1..n : Rank(i) = k - 1]]]

\* deleteSession mutated: the record stays in the store
deleteSession_keep(store, sessionId) == Result(store, FALSE)

deleteSession(store, sessionId) ==
    LET i == IndexOf(store, sessionId)
    IN  IF i = 0 THEN Result(store, FALSE)
        ELSE [Result(Without(store, i), TRUE) EXCEPT !.removed = {sessionId}]

clearAllSessions(store) == [Result(<<>>, NullSession) EXCEPT !.removed = Ids(store)]

getSessionStats(store, t) ==
    LET c == cleanupSessions(store, t)
    IN  [c EXCEPT !.ret =
            [total |-> Len(c.store),
             withConversationId |->
                 Cardinality({i \in 1..Len(c.store) : c.store[i].codexConversationId # ""}),
             maxSessions |-> MAX_SESSIONS, ttlMs |-> SESSION_TTL_MS]]

\* Output text is modelled as its lines of the form "key sep value", keys in
\* lower case (the patterns ignore case) and values written in the characters
\* [a-zA-Z0-9-] the patterns capture.
Line(key, sep, value) == [key |-> key, sep |-> sep, value |-> value]

\* patterns[p - 1] matches the line:
\*   /conversation\s*id\s*:\s*([a-zA-Z0-9-]+)/i
\*   /conv(?:ersation)?[-_]?id\s*[=:]\s*([a-zA-Z0-9-]+)/i
\*   /session\s*id\s*:\s*([a-zA-Z0-9-]+)/i
Matches(p, line) ==
    CASE p = 1 -> line.key \in {"conversation id", "conversationid"} /\ line.sep = ":"
      [] p = 2 -> /\ line.key \in {"conversationid", "conversation-id", "conversation_id",
                                    "convid", "conv-id", "conv_id"}
                  /\ line.sep \in {"=", ":"}
      [] p = 3 -> line.key \in {"session id", "sessionid"} /\ line.sep = ":"

\* output.match(patterns[p - 1])[1], "" for no match
FirstMatch(output, p) ==
    IF \E i \in 1..Len(output) : Matches(p, output[i])
    THEN output[CHOOSE i \in 1..Len(output) :
                    /\ Matches(p, output[i])
                    /\ \A j \in 1..(i - 1) : ~Matches(p, output[j])].value
    ELSE ""

\* "" stands for null
parseConversationIdFromOutput(output) ==
    IF FirstMatch(output, 1) # "" THEN FirstMatch(output, 1)
    ELSE IF FirstMatch(output, 2) # "" THEN FirstMatch(output, 2)
    ELSE FirstMatch(output, 3)

----------------------------------------------------------------------------
(* Inputs of a build: the default call changed in up to MaxSet places *)

LongPrompt == [text |-> "<long prompt>", length |-> MAX_COMMAND_LINE_LENGTH + 1]

\* a prompt of exactly the greatest length that still goes on the command line
LimitPrompt == [text |-> "<limit prompt>", length |-> MAX_COMMAND_LINE_LENGTH]

DefaultCall == [options |-> DefaultOptions, env |-> DefaultEnv, prompt |-> ShortPrompt]

Changes ==
    <<"yolo", "fullAuto", "approvalPolicy", "approval", "sandboxMode",
      "codexConversationId", "search", "oss", "localProvider",
      "model=catalogue", "model=other", "cd", "workingDir",
      "config=object", "profile", "image=2",
      "enableFeatures=search", "enableFeatures=twice", "disableFeatures",
      "addDirs=2", "toolOutputTokenLimit",
      "reasoningEffort", "reasoningEffort=invalid", "useExec=false",
      "concisePrompt", "changeMode", "useStdinForLongPrompts=false",
      "prompt=long", "prompt=limit",
      "probe:default=rejected", "probe:default=broken", "probe:requested=rejected",
      "probe:undefined=rejected", "writeFails">>

Change(c, name) ==
    CASE name = "yolo" -> [c EXCEPT !.options.yolo = TRUE]
      [] name = "fullAuto" -> [c EXCEPT !.options.fullAuto = TRUE]
      [] name = "approvalPolicy" -> [c EXCEPT !.options.approvalPolicy = "never"]
      [] name = "approval" -> [c EXCEPT !.options.approval = "on-request"]
      [] name = "sandboxMode" -> [c EXCEPT !.options.sandboxMode = "read-only"]
      [] name = "codexConversationId" -> [c EXCEPT !.options.codexConversationId = "conv-1"]
      [] name = "search" -> [c EXCEPT !.options.search = TRUE]
      [] name = "oss" -> [c EXCEPT !.options.oss = TRUE]
      [] name = "localProvider" -> [c EXCEPT !.options.localProvider = "ollama"]
      [] name = "model=catalogue" -> [c EXCEPT !.options.model = "gpt-5.2"]
      [] name = "model=other" -> [c EXCEPT !.options.model = "qwen3:8b"]
      [] name = "cd" -> [c EXCEPT !.options.cd = "/other"]
      [] name = "workingDir" -> [c EXCEPT !.options.workingDir = "/repo/pkg"]
      [] name = "config=object" ->
            [c EXCEPT !.options.config =
                [kind |-> "object", text |-> "", entries |-> <<<<"a", "1">>, <<"b", "2">>>>]]
      [] name = "profile" -> [c EXCEPT !.options.profile = "work"]
      [] name = "image=2" -> [c EXCEPT !.options.image = <<"a.png", "b.png">>]
      [] name = "enableFeatures=search" ->
            [c EXCEPT !.options.enableFeatures = <<"web_search_request", "f1">>]
      [] name = "enableFeatures=twice" ->
            [c EXCEPT !.options.enableFeatures =
                <<"web_search_request", "web_search_request">>]
      [] name = "disableFeatures" -> [c EXCEPT !.options.disableFeatures = <<"f2">>]
      [] name = "addDirs=2" ->
            [c EXCEPT !.options.addDirsGiven = TRUE, !.options.addDirs = <<"/tmp", "/var/log">>]
      [] name = "toolOutputTokenLimit" -> [c EXCEPT !.options.toolOutputTokenLimit = 500]
      [] name = "reasoningEffort" -> [c EXCEPT !.options.reasoningEffort = "high"]
      [] name = "reasoningEffort=invalid" -> [c EXCEPT !.options.reasoningEffort = "minimal"]
      [] name = "useExec=false" -> [c EXCEPT !.options.useExec = FALSE]
      [] name = "concisePrompt" -> [c EXCEPT !.options.concisePrompt = TRUE]
      [] name = "changeMode" -> [c EXCEPT !.options.changeMode = TRUE]
      [] name = "useStdinForLongPrompts=false" ->
            [c EXCEPT !.options.useStdinForLongPrompts = FALSE]
      [] name = "prompt=long" -> [c EXCEPT !.prompt = LongPrompt]
      [] name = "prompt=limit" -> [c EXCEPT !.prompt = LimitPrompt]
      [] name = "probe:default=rejected" ->
            [c EXCEPT !.env.probe[MODELS.GPT5_1_CODEX_MAX] = "rejected"]
      [] name = "probe:default=broken" ->
            [c EXCEPT !.env.probe[MODELS.GPT5_1_CODEX_MAX] = "broken"]
      [] name = "probe:requested=rejected" -> [c EXCEPT !.env.probe[MODELS.GPT5_2] = "rejected"]
      [] name = "probe:undefined=rejected" -> [c EXCEPT !.env.probe[UNDEFINED] = "rejected"]
      [] name = "writeFails" -> [c EXCEPT !.env.writeOk = FALSE]


\* the strictly increasing index sequences of length at most k over 1..Len(Changes)
RECURSIVE Selections(_)
Selections(k) ==
    IF k = 0 THEN {<<>>}
    ELSE LET shorter == Selections(k - 1)
         IN  shorter \cup
             {Append(s, i) : <<s, i>> \in
                 {p \in shorter \X (1..Len(Changes)) :
                      Len(p[1]) = k - 1 /\ (p[1] = <<>> \/ p[1][Len(p[1])] < p[2])}}

RECURSIVE ApplyChanges(_, _)
ApplyChanges(c, sel) ==
    IF sel = <<>> THEN c
    ELSE ApplyChanges(Change(c, Changes[Head(sel)]), Tail(sel))

BuildCalls == {ApplyChanges(DefaultCall, sel) : sel \in Selections(MaxSet)}

----------------------------------------------------------------------------
(* State *)

Idle == [phase |-> "idle"]
\* ret is the record a call returned (NullSession for null or no record), listed
\* what listSessions returned, evictedMax the greatest updatedAt among the records
\* the call dropped for capacity (0 when it dropped none), removed the ids whose
\* records it removed as expired or deleted, made the number of records it
\* created, again whether the call before it was the same call, had the
\* conversation id the store held under id when an ask-codex call with
\* resetSession began
NoOp == [op |-> "none", id |-> "", dir |-> "", ret |-> NullSession, listed |-> <<>>,
         evictedMax |-> 0, removed |-> {}, made |-> 0, again |-> FALSE, had |-> ""]

\* session ids callers supply, and every id a record can have
SessionIds == {"S1", "S2"}
AllIds == SessionIds \cup {generateSessionId(n) : n \in 0..(MaxGen - 1)}
\* working directories of the calls
WorkDirs == {"/repo", "/other"}
\* content of /repo/.git/HEAD
GitHead == "ref: refs/heads/main"

Init ==
    /\ now = 1
    /\ sessionStore = <<>>
    /\ modelCache = <<>>
    /\ tempFiles = {}
    /\ build = Idle
    /\ inflight = <<>>
    /\ lastOp = NoOp
    /\ genCount = 0
    /\ created = 0
    /\ expected = [id \in AllIds |-> ""]

\* a caller awaits builder.build(prompt, options) on a new CodexCommandBuilder
Build ==
    /\ build.phase = "idle"
    /\ \E c \in BuildCalls, v \in InstalledVersions :
          LET env == [c.env EXCEPT !.version = v, !.now = now]
              b == buildCommand(c.prompt, c.options, env, modelCache, tempFiles)
          IN  /\ build' = [phase |-> "done", prompt |-> c.prompt, options |-> c.options,
                           env |-> env, threw |-> b.threw, args |-> b.args,
                           tempFile |-> b.tempFile, finalPrompt |-> b.finalPrompt,
                           useResume |-> b.useResumeMode, calls |-> b.calls, model |-> b.model]
              /\ modelCache' = b.cache
              /\ tempFiles' = b.files
    /\ UNCHANGED <<now, sessionStore, inflight, lastOp, genCount, created, expected>>

\* the server process ends and a new one starts on a clean temp directory:
\* every module-level table is empty again
Restart ==
    /\ build.phase = "done"
    /\ now' = 1
    /\ sessionStore' = <<>>
    /\ modelCache' = <<>>
    /\ tempFiles' = {}
    /\ build' = Idle
    /\ inflight' = <<>>
    /\ lastOp' = NoOp
    /\ genCount' = 0
    /\ created' = 0
    /\ expected' = [id \in AllIds |-> ""]

NextBuild == Build \/ Restart

SpecBuild == Init /\ [][NextBuild]_vars

----------------------------------------------------------------------------
(* Calls of the session store *)

\* Date.now() at a call: the clock has advanced by one of these since the last call
Advance == {0, 1, SESSION_TTL_MS + 1}

Min(a, b) == IF a < b THEN a ELSE b

RECURSIVE MaxUpdatedAt(_)
MaxUpdatedAt(records) ==
    IF records = <<>> THEN 0
    ELSE LET rest == MaxUpdatedAt(Tail(records))
         IN  IF Head(records).updatedAt > rest THEN Head(records).updatedAt ELSE rest

ReturnsRecord == {"saveSession", "getSession", "getOrCreateSession"}

\* the ids whose records the effect r took out of the store
Gone(r) == r.removed \cup Ids(r.evicted)

\* what is expected of a session ends when its record leaves the store
Forget(exp, r) == [x \in AllIds |-> IF x \in Gone(r) THEN "" ELSE exp[x]]

\* the call `op` made at time t had the effect r
StoreCall(op, id, dir, r, t, n) ==
    /\ now' = t
    /\ sessionStore' = r.store
    /\ lastOp' = [op |-> op, id |-> id, dir |-> dir,
                  ret |-> IF op \in ReturnsRecord THEN r.ret ELSE NullSession,
                  listed |-> IF op = "listSessions" THEN r.ret ELSE <<>>,
                  evictedMax |-> MaxUpdatedAt(r.evicted), removed |-> r.removed,
                  made |-> r.made,
                  again |-> (lastOp.op = op /\ lastOp.id = id /\ lastOp.dir = dir),
                  had |-> ""]
    /\ genCount' = n
    /\ created' = Min(created + r.made, MAX_SESSIONS + 1)
    /\ expected' = Forget(expected, r)
    /\ build' = Idle
    /\ UNCHANGED <<modelCache, tempFiles, inflight>>

Times == {t \in 1..MaxTime : (t - now) \in Advance}

\* the partial records callers save
SaveInputs(id) ==
    {[NoData EXCEPT !.sessionId = id, !.codexConversationId = "conv-1"]}

SaveSessionCall ==
    \E t \in Times, id \in SessionIds : \E data \in SaveInputs(id) :
        StoreCall("saveSession", id, data.workingDir,
                  saveSession(sessionStore, data, t), t, genCount)

GetSessionCall ==
    \E t \in Times, id \in SessionIds :
        StoreCall("getSession", id, "", getSession(sessionStore, id, t), t, genCount)

GetOrCreateSessionCall ==
    \E t \in Times, dir \in WorkDirs, id \in SessionIds \cup {""} :
        LET r == getOrCreateSession(sessionStore, dir, id, t, GitHead, genCount)
            generated == id = "" /\ r.made > 0
        IN  /\ generated => genCount < MaxGen
            /\ StoreCall("getOrCreateSession", id, dir, r, t,
                         IF generated THEN genCount + 1 ELSE genCount)

SetCodexConversationIdCall ==
    \E t \in Times, id \in SessionIds, conversationId \in {"conv-1"} :
        StoreCall("setCodexConversationId", id, "",
                  setCodexConversationId(sessionStore, id, conversationId, t), t, genCount)

ListSessionsCall ==
    \E t \in Times :
        StoreCall("listSessions", "", "", listSessions(sessionStore, t), t, genCount)

GetSessionStatsCall ==
    \E t \in Times :
        StoreCall("getSessionStats", "", "", getSessionStats(sessionStore, t), t, genCount)

DeleteSessionCall ==
    \E t \in Times, id \in SessionIds :
        StoreCall("deleteSession", id, "", deleteSession(sessionStore, id), t, genCount)

ClearAllSessionsCall ==
    \E t \in Times :
        StoreCall("clearAllSessions", "", "", clearAllSessions(sessionStore), t, genCount)

NextStore ==
    \/ SaveSessionCall
    \/ GetSessionCall
    \/ GetOrCreateSessionCall
    \/ SetCodexConversationIdCall
    \/ ListSessionsCall
    \/ GetSessionStatsCall
    \/ DeleteSessionCall
    \/ ClearAllSessionsCall

SpecStore == Init /\ [][NextStore]_vars

----------------------------------------------------------------------------
(* The ask-codex and list-sessions tools *)

\* Date.now() at a tool call: since the last one either no time to speak of has
\* passed or more than the sessions' time to live
ToolTimes == {t \in 1..MaxTime : (t - now) \in {0, SESSION_TTL_MS + 1}}

\* arguments of the ask-codex calls
AskIds == {"S1"}
AskDirs == {"", "/other"}
AskVersions == {Ver(0, 35, 9), Ver(0, 59, 0)}

\* what the external codex process can report: its stdout text, and the lines
\* of stdout and stderr together
CodexResults ==
    {[output |-> "ok", lines |-> <<Line("session id", ":", "conv-1")>>],
     [output |-> "ok", lines |-> <<Line("tokens used", ":", "12"),
                                   Line("conversation id", ":", "conv-2")>>],
     [output |-> "ok", lines |-> <<Line("session id", ":", "conv-1"),
                                   Line("conv_id", "=", "conv-2")>>],
     [output |-> "ok", lines |-> <<Line("tokens used", ":", "12")>>]}

\* the options ask-codex hands to executeCodex, as executeCodex hands them to build
AskOptions(workingDir, conflict, codexConversationId) ==
    [DefaultOptions EXCEPT !.workingDir = workingDir,
                           !.yolo = conflict,
                           !.sandboxMode = IF conflict THEN "read-only" ELSE "",
                           !.codexConversationId = codexConversationId,
                           !.concisePrompt = FALSE,
                           !.useStdinForLongPrompts = FALSE]

Op(name, id, dir, ret, r) ==
    [op |-> name, id |-> id, dir |-> dir, ret |-> ret, listed |-> <<>>,
     evictedMax |-> MaxUpdatedAt(r.evicted), removed |-> r.removed, made |-> r.made,
     again |-> (lastOp.op = name /\ lastOp.id = id /\ lastOp.dir = dir),
     had |-> IF name = "ask-codex(reset)" /\ IndexOf(sessionStore, id) > 0
             THEN At(sessionStore, id).codexConversationId
             ELSE ""]

\* ask-codex up to the point where it awaits the external process: the session
\* management, then executeCodex building the command.  A build that throws is
\* caught by ask-codex and ends the call.
AskStart ==
    /\ Len(inflight) < MaxInflight
    /\ \E t \in ToolTimes, sessionId \in AskIds, workingDir \in AskDirs,
          resetSession \in BOOLEAN, conflict \in BOOLEAN, v \in AskVersions :
        \E first \in {IF resetSession
                       THEN [deleteSession(sessionStore, sessionId) EXCEPT
                                !.ret = NullSession]
                       ELSE getCodexConversationId(sessionStore, sessionId, t)},
           resolvedWorkingDir \in
               {resolveWorkingDirectory(workingDir, ShortPrompt.text, DefaultEnv.envVars)} :
        \E r \in {IF resolvedWorkingDir # ""
                   THEN Then(first, getOrCreateSession(first.store, resolvedWorkingDir,
                                                       sessionId, t, GitHead, genCount))
                   ELSE first} :
        \E codexConversationId \in {IF first.ret.codexConversationId # ""
                                     THEN first.ret.codexConversationId
                                     ELSE r.ret.codexConversationId},
           env \in {[DefaultEnv EXCEPT !.version = v, !.now = t]} :
        \E options \in {AskOptions(workingDir, conflict, codexConversationId)} :
        \E b \in {buildCommand(ShortPrompt, options, env, modelCache, tempFiles)} :
            /\ now' = t
            /\ sessionStore' = r.store
            /\ lastOp' = Op(IF resetSession THEN "ask-codex(reset)" ELSE "ask-codex",
                            sessionId, resolvedWorkingDir, r.ret, r)
            /\ build' = [phase |-> "done", prompt |-> ShortPrompt, options |-> options,
                         env |-> env, threw |-> b.threw, args |-> b.args,
                         tempFile |-> b.tempFile, finalPrompt |-> b.finalPrompt,
                         useResume |-> b.useResumeMode, calls |-> b.calls, model |-> b.model]
            /\ modelCache' = b.cache
            /\ tempFiles' = b.files
            /\ inflight' = IF b.threw THEN inflight
                           ELSE Append(inflight,
                                       [sessionId |-> IF resolvedWorkingDir # ""
                                                      THEN r.ret.sessionId
                                                      ELSE sessionId,
                                        prompt |-> ShortPrompt.text,
                                        workingDir |-> resolvedWorkingDir])
            /\ created' = Min(created + r.made, MAX_SESSIONS + 1)
            /\ expected' = Forget(expected, r)
            /\ UNCHANGED genCount

\* the external process of a suspended call ends well: ask-codex records the
\* conversation id it finds in the output, then the prompt and the response.
\* The history keeps the id found as `parsed`.
AskComplete ==
    \E i \in 1..Len(inflight), t \in ToolTimes, result \in CodexResults :
        LET call == inflight[i]
            newConversationId == parseConversationIdFromOutput(result.lines)
            g == IF newConversationId # ""
                 THEN setCodexConversationId(sessionStore, call.sessionId,
                                             newConversationId, t)
                 ELSE Result(sessionStore, NullSession)
            r == Then(g, saveSession(g.store,
                             [NoData EXCEPT !.sessionId = call.sessionId,
                                            !.lastPrompt = call.prompt,
                                            !.lastResponse = result.output,
                                            !.workingDir = call.workingDir], t))
            recorded == newConversationId # "" /\ Live(sessionStore, call.sessionId, t)
        IN  /\ now' = t
            /\ sessionStore' = r.store
            /\ lastOp' = Op("ask-codex:completed", call.sessionId, call.workingDir, r.ret, r)
                          @@ [parsed |-> newConversationId]
            /\ inflight' = Without(inflight, i)
            /\ created' = Min(created + r.made, MAX_SESSIONS + 1)
            /\ expected' = [x \in AllIds |->
                               IF x \in Ids(r.evicted) THEN ""
                               ELSE IF x = call.sessionId /\ recorded
                               THEN newConversationId
                               ELSE IF x \in r.removed THEN ""
                               ELSE expected[x]]
            /\ build' = Idle
            /\ UNCHANGED <<modelCache, tempFiles, genCount>>

\* the external process of a suspended call fails: executeCodex throws and
\* ask-codex returns the formatted error
AskFail ==
    \E i \in 1..Len(inflight) :
        /\ inflight' = Without(inflight, i)
        /\ lastOp' = Op("ask-codex:failed", inflight[i].sessionId, inflight[i].workingDir,
                        NullSession, Result(sessionStore, NullSession))
        /\ build' = Idle
        /\ UNCHANGED <<now, sessionStore, modelCache, tempFiles, genCount, created,
                       expected>>

\* list-sessions with action delete
ListSessionsDelete ==
    \E t \in ToolTimes, sessionId \in AskIds :
        StoreCall("deleteSession", sessionId, "", deleteSession(sessionStore, sessionId),
                  t, genCount)

\* list-sessions with action clear
ListSessionsClear ==
    \E t \in ToolTimes :
        StoreCall("clearAllSessions", "", "", clearAllSessions(sessionStore), t, genCount)

\* list-sessions with action list, or none: formatSessionsList reads listSessions
ListSessionsList ==
    \E t \in ToolTimes :
        StoreCall("listSessions", "", "", listSessions(sessionStore, t), t, genCount)

\* health, from its session checks on (no await follows them): getSessionStats,
\* then getSession when a session id is given
Health ==
    \E t \in ToolTimes, sessionId \in AskIds \cup {""} :
        \E stats \in {getSessionStats(sessionStore, t)} :
            StoreCall("health", sessionId, "",
                      IF sessionId # ""
                      THEN Then(stats, getSession(stats.store, sessionId, t))
                      ELSE stats,
                      t, genCount)

NextAsk ==
    \/ AskStart
    \/ AskComplete
    \/ AskFail
    \/ ListSessionsDelete
    \/ ListSessionsClear
    \/ ListSessionsList
    \/ Health

SpecAsk == Init /\ [][NextAsk]_vars

----------------------------------------------------------------------------
(* codexExecutor.ts: executeCodexCLI and executeCodex around the external process *)

\* what executeCommandDetailed does: the process ends with code 0 ("ok"), with
\* another code and little output ("failed") or more than 1000 characters of
\* partial output ("partial"), is killed at the timeout ("timedOut"), or the
\* call itself rejects ("rejected")
ExecOutcomes == {"ok", "failed", "partial", "timedOut", "rejected"}

\* the hex names randomBytes(8) gives the temp files
Rands == {"a1b2", "c3d4", "e5f6"}

ExecPrompts == {ShortPrompt, LimitPrompt, LongPrompt}

\* the options build receives from executeCodexCLI
CliOptions(conflict, useStdinForLongPrompts) ==
    [DefaultOptions EXCEPT !.yolo = conflict,
                           !.sandboxMode = IF conflict THEN "read-only" ELSE "",
                           !.concisePrompt = TRUE,
                           !.useStdinForLongPrompts = useStdinForLongPrompts]

\* executeCodexCLI from the process result on: "returned" or "threw", and the
\* temp directory after the finally block
executeCodexCLI_noFinally(files, tempFile, outcome, unlinkOk) ==
    IF outcome \in {"ok", "partial"}
    THEN [how |-> "returned",
          files |-> IF tempFile # "" THEN cleanupTempFile(files, tempFile, unlinkOk)
                    ELSE files,
          unlinked |-> tempFile # ""]
    ELSE [how |-> "threw", files |-> files, unlinked |-> FALSE]

executeCodexCLI(files, tempFile, outcome, unlinkOk) ==
    [how |-> IF outcome \in {"ok", "partial"} THEN "returned" ELSE "threw",
     files |-> IF tempFile # "" THEN cleanupTempFile(files, tempFile, unlinkOk)
               ELSE files,
     unlinked |-> tempFile # ""]

\* executeCodex from the process result on: it has no finally block
executeCodex(files, tempFile, outcome, unlinkOk) ==
    [how |-> IF outcome = "ok" THEN "returned" ELSE "threw",
     files |-> files, unlinked |-> FALSE]

\* an execution starts: build, then the external process is spawned.  A build
\* that throws ends the execution at once.
ExecStart(fn, options, prompt, writeOk, rand) ==
    /\ Len(inflight) < MaxInflight
    /\ ("/tmp/codex-prompt-" \o rand \o ".txt") \notin tempFiles
    /\ \E env \in {[DefaultEnv EXCEPT !.writeOk = writeOk, !.rand = rand, !.now = now]} :
       \E b \in {buildCommand(prompt, options, env, modelCache, tempFiles)} :
          /\ build' = [phase |-> "done", prompt |-> prompt, options |-> options,
                       env |-> env, threw |-> b.threw, args |-> b.args,
                       tempFile |-> b.tempFile, finalPrompt |-> b.finalPrompt,
                       useResume |-> b.useResumeMode, calls |-> b.calls,
                       model |-> b.model]
          /\ modelCache' = b.cache
          /\ tempFiles' = b.files
          /\ inflight' = IF b.threw THEN inflight
                         ELSE Append(inflight, [fn |-> fn, tempFile |-> b.tempFile])
          /\ lastOp' = [op |-> fn, how |-> IF b.threw THEN "threw" ELSE "started",
                        outcome |-> "", tempFile |-> b.tempFile, unlinked |-> FALSE,
                        unlinkOk |-> TRUE]
    /\ UNCHANGED <<now, sessionStore, genCount, created, expected>>

ExecuteCodexCLIStart ==
    \E conflict \in BOOLEAN, useStdinForLongPrompts \in BOOLEAN, prompt \in ExecPrompts,
       writeOk \in BOOLEAN, rand \in Rands :
        ExecStart("executeCodexCLI", CliOptions(conflict, useStdinForLongPrompts),
                  prompt, writeOk, rand)

ExecuteCodexStart ==
    \E conflict \in BOOLEAN, prompt \in ExecPrompts, writeOk \in BOOLEAN, rand \in Rands :
        ExecStart("executeCodex", AskOptions("", conflict, ""), prompt, writeOk, rand)

\* the external process of a running execution ends and the execution returns
\* or throws
ExecEnd(fn, i, e, outcome, unlinkOk) ==
    /\ inflight[i].fn = fn
    /\ tempFiles' = e.files
    /\ inflight' = Without(inflight, i)
    /\ lastOp' = [op |-> fn, how |-> e.how, outcome |-> outcome,
                  tempFile |-> inflight[i].tempFile, unlinked |-> e.unlinked,
                  unlinkOk |-> unlinkOk \/ ~e.unlinked]
    /\ build' = Idle
    /\ UNCHANGED <<now, sessionStore, modelCache, genCount, created, expected>>

ExecuteCodexCLIEnd ==
    \E i \in 1..Len(inflight), outcome \in ExecOutcomes, unlinkOk \in BOOLEAN :
        ExecEnd("executeCodexCLI", i,
                executeCodexCLI(tempFiles, inflight[i].tempFile, outcome, unlinkOk),
                outcome, unlinkOk)

ExecuteCodexEnd ==
    \E i \in 1..Len(inflight), outcome \in ExecOutcomes :
        ExecEnd("executeCodex", i,
                executeCodex(tempFiles, inflight[i].tempFile, outcome, TRUE),
                outcome, TRUE)

NextExec ==
    \/ ExecuteCodexCLIStart
    \/ ExecuteCodexStart
    \/ ExecuteCodexCLIEnd
    \/ ExecuteCodexEnd

SpecExec == Init /\ [][NextExec]_vars

----------------------------------------------------------------------------
(* CodexCommandBuilder instances whose build calls may overlap *)

\* Arrays are objects: heap holds the token arrays ever made, this[k].args is
\* the index of the array the field args of instance k refers to, and a
\* BuildResult holds the index of the array it was given.

\* the calls made of the instances, all in one environment: the default call,
\* calls that differ from it in one option that a part of build looks at, and
\* a call that validateOptions refuses
SharedCalls ==
    {DefaultCall, Change(Change(DefaultCall, "yolo"), "sandboxMode")}
        \cup {Change(DefaultCall, name) :
                 name \in {"yolo", "codexConversationId", "search", "oss", "addDirs=2"}}

\* `this.args = []; this.useResumeMode = false` on instance k, in place: the
\* array is emptied instead of replaced
resetBuilder_inPlace(shared, k) ==
    [shared EXCEPT !.heap[shared.this[k].args] = <<>>,
                   !.this[k].useResumeMode = FALSE]

\* `this.args = []; this.useResumeMode = false` on instance k: a new array
resetBuilder(shared, k) ==
    [shared EXCEPT !.heap = Append(@, <<>>),
                   !.this[k] = [args |-> Len(shared.heap) + 1, useResumeMode |-> FALSE]]

\* the part of build that runs between two of its awaits (the awaits of
\* checkResumeMode, addModelArg, addSearchAndFeatures and addAdvancedFeatures),
\* on the fields of the instance as they are when the part runs
buildSegment(pc, b, prompt, options, env) ==
    CASE pc = 1 -> IF validateOptions(options) THEN [b EXCEPT !.threw = TRUE]
                   ELSE checkResumeMode(b, options, env)
      [] pc = 2 -> addModelArg(b, options.model,
                               options.oss \/ options.localProvider # "", env)
      [] pc = 3 -> addSearchAndFeatures(
                       addWorkingDir(addSafetyArgs(b, options), options, prompt, env),
                       options, env)
      [] pc = 4 -> addAdvancedFeatures(addDisableFeatures(b, options), options, env)
      [] OTHER ->
            handlePrompt(
                addOssMode(
                    addCommandMode(
                        addImages(
                            addProfile(
                                addConfig(addReasoningEffort(b, options), options),
                                options),
                            options),
                        options),
                    options),
                prompt, options, env)

\* the builder record of a call with the fields of instance k and the
\* module-level tables as they are now
thisFields(shared, k, b, cache, files) ==
    [b EXCEPT !.args = shared.heap[shared.this[k].args],
              !.useResumeMode = shared.this[k].useResumeMode,
              !.cache = cache, !.files = files]

\* the instances after a part of a build has run on instance k
thisAssigned(shared, k, b) ==
    [shared EXCEPT !.heap[shared.this[k].args] = b.args,
                   !.this[k].useResumeMode = b.useResumeMode]

\* two builders are constructed
NewBuilders ==
    /\ build.phase = "idle"
    /\ build' = [phase |-> "shared", heap |-> <<<<>>, <<>>>>,
                 this |-> <<[args |-> 1, useResumeMode |-> FALSE],
                            [args |-> 2, useResumeMode |-> FALSE]>>,
                 returned |-> <<>>]
    /\ UNCHANGED <<now, sessionStore, modelCache, tempFiles, inflight, lastOp, genCount,
                   created, expected>>

\* a caller calls build on instance k: build runs up to its first await.  alone
\* is whether no other build was running on the instance at any time of the
\* call; want is what the same build gives on a builder of its own.
BuildStart ==
    /\ build.phase = "shared"
    /\ Len(inflight) + Len(build.returned) < MaxBuilds
    /\ \E k \in 1..2, c \in SharedCalls :
       \E env \in {[c.env EXCEPT !.now = now]} :
       \E fresh \in {resetBuilder(build, k)} :
       \E b \in {buildSegment(1, thisFields(fresh, k, FreshBuilder(modelCache, tempFiles),
                                            modelCache, tempFiles),
                              c.prompt, c.options, env)} :
       \E want \in {buildCommand(c.prompt, c.options, env, modelCache, tempFiles)} :
       \E call \in {[on |-> k, prompt |-> c.prompt, options |-> c.options, env |-> env,
                     pc |-> 2, b |-> b,
                     alone |-> \A i \in 1..Len(inflight) : inflight[i].on # k,
                     want |-> [args |-> want.args, useResume |-> want.useResumeMode,
                               threw |-> want.threw]]} :
          /\ modelCache' = b.cache
          /\ tempFiles' = b.files
          /\ IF b.threw
             THEN /\ build' = [thisAssigned(fresh, k, b) EXCEPT
                                  !.returned = Append(@, [on |-> k, threw |-> TRUE,
                                                          args |-> 0, useResume |-> FALSE,
                                                          alone |-> call.alone,
                                                          want |-> call.want])]
                  /\ inflight' = [i \in 1..Len(inflight) |->
                                     IF inflight[i].on = k
                                     THEN [inflight[i] EXCEPT !.alone = FALSE]
                                     ELSE inflight[i]]
             ELSE /\ build' = thisAssigned(fresh, k, b)
                  /\ inflight' = Append([i \in 1..Len(inflight) |->
                                            IF inflight[i].on = k
                                            THEN [inflight[i] EXCEPT !.alone = FALSE]
                                            ELSE inflight[i]],
                                        call)
    /\ UNCHANGED <<now, sessionStore, lastOp, genCount, created, expected>>

\* a build goes on after an await; the last part returns
\* {args: this.args, tempFile, finalPrompt, useResume: this.useResumeMode}
BuildStep ==
    /\ build.phase = "shared"
    /\ \E i \in 1..Len(inflight) :
       \E call \in {inflight[i]} :
       \E b \in {buildSegment(call.pc,
                              thisFields(build, call.on, call.b, modelCache, tempFiles),
                              call.prompt, call.options, call.env)} :
          /\ modelCache' = b.cache
          /\ tempFiles' = b.files
          /\ IF call.pc < 5
             THEN /\ build' = thisAssigned(build, call.on, b)
                  /\ inflight' = [inflight EXCEPT ![i] = [call EXCEPT !.pc = @ + 1,
                                                                      !.b = b]]
             ELSE /\ build' = [thisAssigned(build, call.on, b) EXCEPT
                                  !.returned =
                                      Append(@, [on |-> call.on, threw |-> FALSE,
                                                 args |-> build.this[call.on].args,
                                                 useResume |-> b.useResumeMode,
                                                 alone |-> call.alone,
                                                 want |-> call.want])]
                  /\ inflight' = [j \in 1..(Len(inflight) - 1) |->
                                     IF j < i THEN inflight[j] ELSE inflight[j + 1]]
    /\ UNCHANGED <<now, sessionStore, lastOp, genCount, created, expected>>

NextShared == NewBuilders \/ BuildStart \/ BuildStep

SpecShared == Init /\ [][NextShared]_vars

----------------------------------------------------------------------------
(* isModelAvailable called by concurrent logical calls *)

\* the models asked for and the times of the calls: the clock never goes back
ProbeModels == {"gpt-5.2", "gpt-5.1-codex-max"}
ProbeTimes == now..MaxTime

\* the last conclusive outcome written for each model so far (history)
Wrote == IF "wrote" \in DOMAIN lastOp THEN lastOp.wrote ELSE <<>>

\* the cache entry of a model, timestamp 0 when there is none
EntryOf(cache, modelName) ==
    IF modelName \in DOMAIN cache THEN cache[modelName]
    ELSE [available |-> FALSE, timestamp |-> 0]

\* isModelAvailable(modelName, bypassCache) up to its first await: it returns
\* the cached answer, or starts the test run.  at is what the call found: the
\* cached value, whether there was an entry, whether the entry was less than
\* CACHE_TTL_MS old and whether it was exactly that old.
IsModelAvailableStart ==
    /\ Len(inflight) < MaxInflight
    /\ \E t \in ProbeTimes, modelName \in ProbeModels, bypassCache \in BOOLEAN :
       \E r \in {isModelAvailable(FreshBuilder(modelCache, tempFiles), modelName,
                                  bypassCache, [DefaultEnv EXCEPT !.now = t])} :
       \E entry \in {EntryOf(modelCache, modelName)} :
       \E at \in {[cached |-> entry.available, hadEntry |-> entry.timestamp # 0,
                   fresh |-> entry.timestamp # 0
                             /\ t - entry.timestamp < CACHE_TTL_MS,
                   atTtl |-> entry.timestamp # 0
                             /\ t - entry.timestamp = CACHE_TTL_MS]} :
          /\ now' = t
          /\ IF r.calls = <<>>
             THEN /\ lastOp' = [op |-> "isModelAvailable", model |-> modelName,
                                bypassCache |-> bypassCache, ret |-> r.available,
                                probed |-> FALSE, outcome |-> "", at |-> at,
                                prior |-> entry, othersKept |-> TRUE,
                                overlapped |-> FALSE, wrote |-> Wrote]
                  /\ inflight' = inflight
             ELSE /\ lastOp' = [op |-> "testRun", model |-> modelName, wrote |-> Wrote]
                  /\ inflight' =
                         Append([i \in 1..Len(inflight) |->
                                    IF inflight[i].model = modelName
                                    THEN [inflight[i] EXCEPT !.overlapped = TRUE]
                                    ELSE inflight[i]],
                                [model |-> modelName, bypassCache |-> bypassCache,
                                 at |-> at,
                                 overlapped |-> \E i \in 1..Len(inflight) :
                                                   inflight[i].model = modelName])
    /\ build' = Idle
    /\ UNCHANGED <<sessionStore, modelCache, tempFiles, genCount, created, expected>>

\* the test run of a call ends, and after a failed one the codex --version run:
\* the call writes the cache when the outcome is conclusive, and returns.
\* prior is the entry of the model before the write, othersKept whether the
\* entries of the other models are as before.
IsModelAvailableEnd ==
    /\ \E i \in 1..Len(inflight), t \in ProbeTimes,
          outcome \in {"ok", "rejected", "broken"} :
       \E call \in {inflight[i]} :
       \E r \in {isModelAvailable(FreshBuilder(modelCache, tempFiles), call.model, TRUE,
                                  [DefaultEnv EXCEPT !.now = t,
                                                     !.probe[call.model] = outcome])} :
          /\ now' = t
          /\ modelCache' = r.cache
          /\ lastOp' = [op |-> "isModelAvailable", model |-> call.model,
                        bypassCache |-> call.bypassCache, ret |-> r.available,
                        probed |-> TRUE, outcome |-> outcome, at |-> call.at,
                        prior |-> EntryOf(modelCache, call.model),
                        othersKept |->
                            /\ DOMAIN r.cache \ {call.model}
                                   = DOMAIN modelCache \ {call.model}
                            /\ \A m \in DOMAIN modelCache \ {call.model} :
                                   r.cache[m] = modelCache[m],
                        overlapped |-> call.overlapped,
                        wrote |-> IF outcome = "broken" THEN Wrote
                                  ELSE CachePut(Wrote, call.model, outcome = "ok")]
          /\ inflight' = [j \in 1..(Len(inflight) - 1) |->
                             IF j < i THEN inflight[j] ELSE inflight[j + 1]]
    /\ build' = Idle
    /\ UNCHANGED <<sessionStore, tempFiles, genCount, created, expected>>

NextProbe == IsModelAvailableStart \/ IsModelAvailableEnd

SpecProbe == Init /\ [][NextProbe]_vars

----------------------------------------------------------------------------
(* versionDetection.ts: the version text of `codex --version` *)

\* the character of s at position i (from 1), "" outside the string
charAt(s, i) == IF i \in 1..Len(s) THEN SubSeq(s, i, i) ELSE ""

\* the longest run of decimal digits of s that starts at position i: \d+ when
\* it is not empty
RECURSIVE digits(_, _)
digits(s, i) ==
    IF charAt(s, i) \in {"0", "1", "2", "3", "4", "5", "6", "7", "8", "9"}
    THEN charAt(s, i) \o digits(s, i + 1)
    ELSE ""

\* parseInt(str, 10) of a run of digits
RECURSIVE parseInt(_)
parseInt(str) ==
    IF str = "" THEN 0
    ELSE parseInt(SubSeq(str, 1, Len(str) - 1)) * 10
             + (CHOOSE d \in 0..9 : ToString(d) = charAt(str, Len(str)))

\* String.prototype.trim
RECURSIVE trim(_)
trim(s) ==
    IF charAt(s, 1) \in {" ", "\t", "\n"} THEN trim(SubSeq(s, 2, Len(s)))
    ELSE IF charAt(s, Len(s)) \in {" ", "\t", "\n"} THEN trim(SubSeq(s, 1, Len(s) - 1))
    ELSE s

\* the groups of /(\d+)\.(\d+)\.(\d+)/ matched at position i of s, <<>> when it
\* does not match there; a run of digits is followed by a dot only when it is
\* taken whole, so the greedy match is the only one
semver(s, i) ==
    LET major == digits(s, i)
        dot1 == i + Len(major)
        minor == digits(s, dot1 + 1)
        dot2 == dot1 + 1 + Len(minor)
        patch == digits(s, dot2 + 1)
    IN  IF /\ major # "" /\ charAt(s, dot1) = "."
           /\ minor # "" /\ charAt(s, dot2) = "."
           /\ patch # ""
        THEN <<major, minor, patch>>
        ELSE <<>>

parseVersion_anchored(versionString) ==
    LET cleanVersion == trim(IF charAt(versionString, 1) = "v"
                             THEN SubSeq(versionString, 2, Len(versionString))
                             ELSE versionString)
        match == semver(cleanVersion, 1)
    IN  IF match = <<>>
           \/ Len(match[1]) + Len(match[2]) + Len(match[3]) + 2 # Len(cleanVersion)
        THEN [major |-> 0, minor |-> 0, patch |-> 0, raw |-> versionString,
              isValid |-> FALSE]
        ELSE [major |-> parseInt(match[1]), minor |-> parseInt(match[2]),
              patch |-> parseInt(match[3]), raw |-> versionString, isValid |-> TRUE]

parseVersion(versionString) ==
    LET cleanVersion == trim(IF charAt(versionString, 1) = "v"
                             THEN SubSeq(versionString, 2, Len(versionString))
                             ELSE versionString)
        match == semver(cleanVersion, 1)
    IN  IF match = <<>>
        THEN [major |-> 0, minor |-> 0, patch |-> 0, raw |-> versionString,
              isValid |-> FALSE]
        ELSE [major |-> parseInt(match[1]), minor |-> parseInt(match[2]),
              patch |-> parseInt(match[3]), raw |-> versionString, isValid |-> TRUE]

\* failed: executeCommand rejects (codex is missing, exits non-zero or times out)
getCodexVersion(versionOutput, failed) ==
    LET \* where /codex\s+v?(\d+\.\d+\.\d+)/ puts its group when it matches at i,
        \* 0 when it does not
        afterCodex(i) ==
            LET spaces == CHOOSE n \in 0..Len(versionOutput) :
                              /\ \A k \in 1..n :
                                     charAt(versionOutput, i + 4 + k) \in {" ", "\t", "\n"}
                              /\ charAt(versionOutput, i + 5 + n) \notin {" ", "\t", "\n"}
                v == IF charAt(versionOutput, i + 5 + spaces) = "v" THEN 1 ELSE 0
            IN  IF /\ i + 4 <= Len(versionOutput)
                   /\ SubSeq(versionOutput, i, i + 4) = "codex"
                   /\ spaces > 0
                   /\ semver(versionOutput, i + 5 + spaces + v) # <<>>
                THEN i + 5 + spaces + v
                ELSE 0
        \* the same of /v?(\d+\.\d+\.\d+)/
        anywhere(i) ==
            IF semver(versionOutput, i) # <<>> THEN i
            ELSE IF charAt(versionOutput, i) = "v" /\ semver(versionOutput, i + 1) # <<>>
            THEN i + 1
            ELSE 0
        \* a regular expression matches at the leftmost position where it can
        first == {i \in 1..Len(versionOutput) : afterCodex(i) # 0}
        second == {i \in 1..Len(versionOutput) : anywhere(i) # 0}
        at == IF first # {} THEN afterCodex(CHOOSE i \in first : \A j \in first : i <= j)
              ELSE IF second # {}
              THEN anywhere(CHOOSE i \in second : \A j \in second : i <= j)
              ELSE 0
        group == semver(versionOutput, at)
    IN  IF failed
        THEN [major |-> 0, minor |-> 0, patch |-> 0, raw |-> "unknown", isValid |-> FALSE]
        ELSE IF at = 0
        THEN [major |-> 0, minor |-> 0, patch |-> 0, raw |-> versionOutput,
              isValid |-> FALSE]
        ELSE parseVersion(group[1] \o "." \o group[2] \o "." \o group[3])

\* the texts parsed: a version text or something else, with text around it
VersionOutputs ==
    {prefix \o core \o suffix :
        prefix \in {"", "v", "codex ", "codex v", "codex-cli ", "vv", " v", "codex\t\n"},
        core \in {"0.59.0", "0.52.1", "1.2.3", "10.0.7", "007.08.09", "0.59", "0.59.x",
                  "abc", ""},
        suffix \in {"", "\n", "-beta", ".4", " (build 9.9.9)", " codex 9.9.9"}}

\* the records and thresholds compared: every field from a few numbers, valid
\* or not
CodexVersions ==
    [major : {0, 1}, minor : {0, 36, 52, 59}, patch : {0, 1, 59}, isValid : BOOLEAN]

ParseVersion ==
    /\ lastOp.op = "none"
    /\ \E versionString \in VersionOutputs :
          lastOp' = [op |-> "parseVersion", text |-> versionString, failed |-> FALSE,
                     ret |-> parseVersion(versionString)]
    /\ build' = Idle
    /\ UNCHANGED <<now, sessionStore, modelCache, tempFiles, inflight, genCount, created,
                   expected>>

GetCodexVersion ==
    /\ lastOp.op = "none"
    /\ \E versionOutput \in VersionOutputs, failed \in BOOLEAN :
          lastOp' = [op |-> "getCodexVersion", text |-> versionOutput, failed |-> failed,
                     ret |-> getCodexVersion(versionOutput, failed)]
    /\ build' = Idle
    /\ UNCHANGED <<now, sessionStore, modelCache, tempFiles, inflight, genCount, created,
                   expected>>

MeetsMinVersion ==
    /\ lastOp.op = "none"
    /\ \E version \in CodexVersions :
       \E minVersion \in [major : {0, 1}, minor : {0, 36, 52, 59}, patch : {0, 1, 59}] :
          lastOp' = [op |-> "meetsMinVersion", version |-> version,
                     minVersion |-> minVersion,
                     compared |-> compareVersions(version, minVersion),
                     ret |-> meetsMinVersion(version, minVersion)]
    /\ build' = Idle
    /\ UNCHANGED <<now, sessionStore, modelCache, tempFiles, inflight, genCount, created,
                   expected>>

\* isFeatureAvailable of versionDetection.ts: it asks the installed tool each time
IsFeatureAvailable ==
    /\ lastOp.op = "none"
    /\ \E versionOutput \in VersionOutputs, failed \in BOOLEAN :
       \E featureName \in DOMAIN FEATURE_VERSIONS :
          lastOp' = [op |-> "isFeatureAvailable", text |-> versionOutput,
                     failed |-> failed, featureName |-> featureName,
                     version |-> getCodexVersion(versionOutput, failed),
                     minVersion |-> FEATURE_VERSIONS[featureName],
                     ret |-> isFeatureAvailable(getCodexVersion(versionOutput, failed),
                                                featureName)]
    /\ build' = Idle
    /\ UNCHANGED <<now, sessionStore, modelCache, tempFiles, inflight, genCount, created,
                   expected>>

\* the caller has used the answer
VersionHandled ==
    /\ lastOp.op \in {"parseVersion", "getCodexVersion", "meetsMinVersion",
                      "isFeatureAvailable"}
    /\ lastOp' = NoOp
    /\ UNCHANGED <<now, sessionStore, modelCache, tempFiles, build, inflight, genCount,
                   created, expected>>

NextVersion ==
    \/ ParseVersion
    \/ GetCodexVersion
    \/ MeetsMinVersion
    \/ IsFeatureAvailable
    \/ VersionHandled

SpecVersion == Init /\ [][NextVersion]_vars

----------------------------------------------------------------------------
(* errorTypes.ts *)

ErrorCategory ==
    [CLI_NOT_FOUND |-> "CLI_NOT_FOUND", AUTHENTICATION |-> "AUTHENTICATION",
     RATE_LIMIT |-> "RATE_LIMIT", TIMEOUT |-> "TIMEOUT", SANDBOX |-> "SANDBOX",
     NETWORK |-> "NETWORK", SESSION |-> "SESSION", UNKNOWN |-> "UNKNOWN"]

\* String.prototype.toLowerCase on the letters A to Z
RECURSIVE toLowerCase(_)
toLowerCase(str) ==
    IF str = "" THEN ""
    ELSE LET upper == "ABCDEFGHIJKLMNOPQRSTUVWXYZ"
             lower == "abcdefghijklmnopqrstuvwxyz"
             ch == SubSeq(str, 1, 1)
             at == {i \in 1..26 : SubSeq(upper, i, i) = ch}
         IN  (IF at = {} THEN ch ELSE SubSeq(lower, CHOOSE i \in at : TRUE,
                                                    CHOOSE i \in at : TRUE))
             \o toLowerCase(SubSeq(str, 2, Len(str)))

\* String.prototype.includes
includes(str, search) ==
    \E i \in 1..(Len(str) - Len(search) + 1) :
        SubSeq(str, i, i + Len(search) - 1) = search

\* classifyError mutated: the rate-limit test is made before the
\* tool-not-found and authentication tests
classifyError_rateLimitFirst(errorMessage) ==
    LET message == toLowerCase(errorMessage)
        HasAny(keywords) == \E k \in keywords : includes(message, k)
    IN  IF HasAny({"rate limit", "quota", "too many requests", "429"})
        THEN ErrorCategory.RATE_LIMIT
        ELSE IF HasAny({"command not found", "not found", "enoent"})
        THEN ErrorCategory.CLI_NOT_FOUND
        ELSE IF HasAny({"authentication", "unauthorized", "api key", "401"})
        THEN ErrorCategory.AUTHENTICATION
        ELSE IF HasAny({"timeout", "timed out", "etimedout"})
        THEN ErrorCategory.TIMEOUT
        ELSE IF HasAny({"sandbox", "permission", "denied", "access"})
        THEN ErrorCategory.SANDBOX
        ELSE IF HasAny({"network", "connect", "econnrefused", "enotfound"})
        THEN ErrorCategory.NETWORK
        ELSE IF HasAny({"session", "expired", "conversation id"})
        THEN ErrorCategory.SESSION
        ELSE ErrorCategory.UNKNOWN

classifyError(errorMessage) ==
    LET message == toLowerCase(errorMessage)
        HasAny(keywords) == \E k \in keywords : includes(message, k)
    IN  IF HasAny({"command not found", "not found", "enoent"})
        THEN ErrorCategory.CLI_NOT_FOUND
        ELSE IF HasAny({"authentication", "unauthorized", "api key", "401"})
        THEN ErrorCategory.AUTHENTICATION
        ELSE IF HasAny({"rate limit", "quota", "too many requests", "429"})
        THEN ErrorCategory.RATE_LIMIT
        ELSE IF HasAny({"timeout", "timed out", "etimedout"})
        THEN ErrorCategory.TIMEOUT
        ELSE IF HasAny({"sandbox", "permission", "denied", "access"})
        THEN ErrorCategory.SANDBOX
        ELSE IF HasAny({"network", "connect", "econnrefused", "enotfound"})
        THEN ErrorCategory.NETWORK
        ELSE IF HasAny({"session", "expired", "conversation id"})
        THEN ErrorCategory.SESSION
        ELSE ErrorCategory.UNKNOWN

isRetryableError(category) ==
    category \in {ErrorCategory.RATE_LIMIT, ErrorCategory.TIMEOUT, ErrorCategory.NETWORK}

\* A JavaScript number: a double that holds an integer exactly ("finite", v), a
\* finite double above 2^20 whose digits the model does not keep ("huge"),
\* Infinity or NaN.
\* Math.pow(2, exponent): doubles end below 2^1024
MathPow2(exponent) ==
    IF exponent >= 1024 THEN [kind |-> "Infinity", v |-> 0]
    ELSE IF exponent > 20 THEN [kind |-> "huge", v |-> 0]
    ELSE [kind |-> "finite", v |-> 2^exponent]

\* jitter is Math.random() * 1000 rounded down, 0 to 999
getRetryDelay(category, attempt, jitter) ==
    LET baseDelays == [RATE_LIMIT |-> 60000, TIMEOUT |-> 5000, NETWORK |-> 10000,
                       CLI_NOT_FOUND |-> 0, AUTHENTICATION |-> 0, SANDBOX |-> 0,
                       SESSION |-> 0, UNKNOWN |-> 5000]
        baseDelay == baseDelays[category]
        pow == MathPow2(attempt - 1)
        \* baseDelay * pow: 0 * Infinity is NaN, 0 * finite is 0
        delay == IF pow.kind = "finite" THEN [pow EXCEPT !.v = baseDelay * @]
                 ELSE IF baseDelay # 0 THEN pow
                 ELSE IF pow.kind = "huge" THEN [kind |-> "finite", v |-> 0]
                 ELSE [kind |-> "NaN", v |-> 0]
        sum == IF delay.kind = "finite" THEN [delay EXCEPT !.v = @ + jitter] ELSE delay
    IN  \* Math.min(sum, 300000): NaN when sum is NaN
        IF sum.kind = "NaN" THEN sum
        ELSE IF sum.kind = "finite" /\ sum.v < 300000 THEN sum
        ELSE [kind |-> "finite", v |-> 300000]

\* attempt numbers and jitters of the calls
Attempts == (1..MaxAttempt) \cup {40, 1025}
Jitters == {0, 1, 500, 999}

\* the error messages classified: one or two fragments, as the tool and the
\* operating system word them
MessageFragments ==
    {"Rate limit exceeded (429)", "spawn codex ENOENT", "codex: command not found",
     "Unauthorized", "Invalid API key", "HTTP 401", "Quota exceeded",
     "Too Many Requests", "Request timed out", "connect ETIMEDOUT", "Timeout",
     "Permission denied", "Sandbox violation", "Access refused",
     "Network unreachable", "ECONNREFUSED", "getaddrinfo ENOTFOUND api",
     "Session expired", "Unknown conversation id", "Segmentation fault",
     "exit code 1"}

Messages ==
    MessageFragments \cup {a \o ": " \o b : a \in MessageFragments, b \in MessageFragments}

\* codexExecutor.ts: the Error the two entry points throw for a process result
\* with ok = false.  `threw` is FALSE when partial output is returned instead.
\* executeCodexCLI looks at result.timedOut; options.timeoutMs of 0 is absent.
executeCodexCLIError(result, timeoutMs) ==
    IF result.partialLong THEN [threw |-> FALSE, message |-> ""]
    ELSE LET errorMessage == IF result.stderr # "" THEN result.stderr
                             ELSE "Unknown error"
         IN  [threw |-> TRUE,
              message |->
                 IF result.timedOut
                 THEN "Codex CLI timed out after "
                      \o ToString(IF timeoutMs # 0 THEN timeoutMs ELSE 600000) \o "ms"
                 ELSE "Codex CLI failed with exit code " \o ToString(result.code)
                      \o ": " \o errorMessage]

\* executeCodex words the error from stderr alone
executeCodexError(result, timeoutMs) ==
    LET errorMessage == IF result.stderr # "" THEN result.stderr ELSE "Unknown error"
    IN  [threw |-> TRUE,
         message |->
            IF includes(errorMessage, "command not found")
               \/ includes(errorMessage, "not found")
            THEN "Codex CLI not found. Install with: npm install -g @openai/codex"
            ELSE IF includes(errorMessage, "authentication")
                    \/ includes(errorMessage, "unauthorized")
            THEN "Authentication failed. Run \"codex login\" or set OPENAI_API_KEY"
            ELSE IF includes(errorMessage, "quota")
                    \/ includes(errorMessage, "rate limit")
            THEN "Rate limit exceeded. Please wait and try again"
            ELSE IF includes(errorMessage, "permission")
                    \/ includes(errorMessage, "sandbox")
            THEN "Permission denied. Try adjusting sandbox mode or approval policy: "
                 \o errorMessage
            ELSE "Codex CLI failed: " \o errorMessage]

\* what the external process wrote to stderr before it ended or was killed
StderrTexts ==
    {"", "codex: command not found", "authentication required", "rate limit reached",
     "sandbox: permission denied", "stream disconnected", "Killed"}

\* the timeouts callers ask for, in milliseconds; 0 is none given
TimeoutsMs == {0, 30000, 401000}

\* process results with ok = false
FailedResults ==
    [stderr : StderrTexts, timedOut : BOOLEAN, partialLong : BOOLEAN, code : {1, 124}]

\* an execution fails and its caller classifies the Error it threw
ExecutionFails ==
    /\ lastOp.op = "none"
    /\ \E fn \in {"executeCodexCLI", "executeCodex"}, result \in FailedResults,
          timeoutMs \in TimeoutsMs :
         \E e \in {IF fn = "executeCodexCLI" THEN executeCodexCLIError(result, timeoutMs)
                   ELSE executeCodexError(result, timeoutMs)} :
            lastOp' = [op |-> "executionFails", fn |-> fn, result |-> result,
                       timeoutMs |-> timeoutMs, threw |-> e.threw,
                       message |-> e.message,
                       ret |-> IF e.threw THEN classifyError(e.message) ELSE "",
                       retryable |-> e.threw
                                     /\ isRetryableError(classifyError(e.message))]
    /\ build' = Idle
    /\ UNCHANGED <<now, sessionStore, modelCache, tempFiles, inflight, genCount, created,
                   expected>>

\* createCodexError classifies the message of a failure
ClassifyError ==
    /\ lastOp.op = "none"
    /\ \E message \in Messages :
          lastOp' = [op |-> "classifyError", message |-> message,
                     ret |-> classifyError(message),
                     retryable |-> isRetryableError(classifyError(message))]
    /\ build' = Idle
    /\ UNCHANGED <<now, sessionStore, modelCache, tempFiles, inflight, genCount, created,
                   expected>>

\* a caller asks how long to wait before the next attempt
GetRetryDelay ==
    /\ lastOp.op = "none"
    /\ \E c \in DOMAIN ErrorCategory, attempt \in Attempts, jitter \in Jitters :
          lastOp' = [op |-> "getRetryDelay", category |-> ErrorCategory[c],
                     attempt |-> attempt, jitter |-> jitter,
                     ret |-> getRetryDelay(ErrorCategory[c], attempt, jitter)]
    /\ build' = Idle
    /\ UNCHANGED <<now, sessionStore, modelCache, tempFiles, inflight, genCount, created,
                   expected>>

\* the caller has used the answer
ErrorHandled ==
    /\ lastOp.op \in {"classifyError", "getRetryDelay", "executionFails"}
    /\ lastOp' = NoOp
    /\ UNCHANGED <<now, sessionStore, modelCache, tempFiles, build, inflight, genCount,
                   created, expected>>

NextErrors == ClassifyError \/ GetRetryDelay \/ ExecutionFails \/ ErrorHandled

SpecErrors == Init /\ [][NextErrors]_vars

----------------------------------------------------------------------------
(* Properties of CodexCommandBuilder.build *)

Built == build.phase = "done"

Conflict(options) ==
    options.yolo /\ (options.approvalPolicy # "" \/ options.sandboxMode # "")

HasToken(x) == Includes(build.args, x)

\* C1: a build whose options combine yolo with approvalPolicy, or yolo with
\* sandboxMode, throws before any collaborator is consulted: no version probe,
\* no model probe, no working-directory resolution and no temp-file write has
\* happened, no token was produced and the model cache is untouched.
C1_ConflictThrowsFirst ==
    (Built /\ Conflict(build.options))
        => /\ build.threw
           /\ build.calls = <<>>
           /\ build.args = <<>>
           /\ build.tempFile = ""
           /\ tempFiles = {}
           /\ modelCache = <<>>

C1_Witness ==
    /\ Built
    /\ build.options.yolo /\ build.options.sandboxMode # ""
    /\ build.options.approvalPolicy = ""
    /\ build.prompt.length > MAX_COMMAND_LINE_LENGTH
    /\ build.threw

\* C2: the tokens of a build never hold two mutually exclusive safety groups:
\* the bypass flag never appears with --full-auto, --ask-for-approval, -a or
\* --sandbox, and --full-auto never appears with --ask-for-approval, -a or
\* --sandbox.
C2_SafetyGroupsExclusive ==
    Built =>
        /\ HasToken(FLAGS.YOLO) =>
               ~(\/ HasToken(FLAGS.FULL_AUTO) \/ HasToken(FLAGS.ASK_FOR_APPROVAL)
                 \/ HasToken(FLAGS.APPROVAL) \/ HasToken(FLAGS.SANDBOX_MODE))
        /\ HasToken(FLAGS.FULL_AUTO) =>
               ~(\/ HasToken(FLAGS.ASK_FOR_APPROVAL) \/ HasToken(FLAGS.APPROVAL)
                 \/ HasToken(FLAGS.SANDBOX_MODE))

C2_Witness ==
    /\ Built /\ ~build.threw
    /\ build.options.yolo /\ build.options.fullAuto /\ build.options.approval # ""
    /\ HasToken(FLAGS.YOLO)

ResumeTriple(args, id) ==
    \E i \in 1..(Len(args) - 2) :
        args[i] = "exec" /\ args[i + 1] = FLAGS.RESUME /\ args[i + 2] = id

\* C3: a build that passes validation never fails, and it is in resume mode
\* exactly when a codexConversationId was supplied and the installed version
\* supports resume; in resume mode the result has useResume true and the
\* adjacent tokens exec, resume, <id>; otherwise useResume is false and the
\* token resume does not appear.
C3_ResumeMode ==
    (Built /\ ~Conflict(build.options))
        => /\ ~build.threw
           /\ build.useResume <=> (/\ build.options.codexConversationId # ""
                                    /\ supportsResume(build.env.version))
           /\ build.useResume =>
                  ResumeTriple(build.args, build.options.codexConversationId)
           /\ ~build.useResume => ~HasToken(FLAGS.RESUME)

C3_Witness ==
    /\ Built /\ ~build.threw
    /\ build.options.codexConversationId = "conv-1"
    /\ build.env.version = Ver(0, 36, 0)
    /\ build.useResume
    /\ ResumeTriple(build.args, "conv-1")

----------------------------------------------------------------------------
(* Properties of the session store *)

\* C5: getOrCreateSession(workingDir, id) with an explicit id returns a record
\* whose sessionId is id: the stored record of that id when it exists and has
\* not expired, otherwise a new record with that id in the workspace derived
\* from workingDir; never a session of the workspace that has another id.  The
\* record returned is the one the store holds under id after the call.
C5_ExplicitIdHonoured ==
    [][(lastOp'.op = "getOrCreateSession" /\ lastOp'.id # "") =>
          LET ret == lastOp'.ret
          IN  /\ ret.sessionId = lastOp'.id
              /\ IF Live(sessionStore, lastOp'.id, now')
                 THEN ret = At(sessionStore, lastOp'.id)
                 ELSE /\ ret.workspaceId = generateWorkspaceId(lastOp'.dir, GitHead)
                      /\ ret.workingDir = lastOp'.dir
                      /\ ret.createdAt = now' /\ ret.updatedAt = now'
                      /\ ret.codexConversationId = ""
              /\ IndexOf(sessionStore', lastOp'.id) > 0
              /\ At(sessionStore', lastOp'.id) = ret]_vars

\* an explicit id was honoured although the workspace holds a session of another
\* id that is at least as recent
C5_Witness ==
    /\ lastOp.op = "getOrCreateSession" /\ lastOp.id = "S1"
    /\ lastOp.ret.sessionId = "S1"
    /\ \E j \in 1..Len(sessionStore) :
          /\ sessionStore[j].sessionId # "S1"
          /\ sessionStore[j].workspaceId = generateWorkspaceId(lastOp.dir, GitHead)
          /\ sessionStore[j].updatedAt >= lastOp.ret.updatedAt

MutatingOps ==
    {"saveSession", "getOrCreateSession", "setCodexConversationId", "listSessions",
     "getSessionStats"}

\* C6: once more than MAX_SESSIONS sessions have been created, after any
\* subsequent mutating call the store holds exactly MAX_SESSIONS sessions, and
\* no session the call dropped is more recent than one it kept.
C6_CapacityKept ==
    [][(created > MAX_SESSIONS /\ lastOp'.op \in MutatingOps) =>
          /\ Len(sessionStore') = MAX_SESSIONS
          /\ \A i \in 1..Len(sessionStore') :
                sessionStore'[i].updatedAt >= lastOp'.evictedMax]_vars

\* C7: a session older than the TTL is never observable: getSession on it
\* returns null and removes it, no listSessions result contains an expired
\* session, and no call returns an expired record.
C7_ExpiredNeverObserved ==
    [][/\ (lastOp'.op = "getSession" /\ IndexOf(sessionStore, lastOp'.id) > 0
                                      /\ Expired(At(sessionStore, lastOp'.id), now'))
            => /\ lastOp'.ret = NullSession
               /\ IndexOf(sessionStore', lastOp'.id) = 0
       /\ \A k \in 1..Len(lastOp'.listed) : ~Expired(lastOp'.listed[k], now')
       /\ lastOp'.ret # NullSession => ~Expired(lastOp'.ret, now')]_vars

C7_Witness ==
    /\ lastOp.op = "getSession"
    /\ lastOp.id \in lastOp.removed
    /\ lastOp.ret = NullSession
    /\ IndexOf(sessionStore, lastOp.id) = 0

\* C8: two consecutive calls getOrCreateSession(dir, id) with the same explicit
\* id, the record not expiring between them, return the same record, and the
\* second call leaves the store unchanged.
C8_RepeatedCallSameRecord ==
    [][(/\ lastOp.op = "getOrCreateSession" /\ lastOp'.op = "getOrCreateSession"
        /\ lastOp.id # "" /\ lastOp'.id = lastOp.id /\ lastOp'.dir = lastOp.dir
        /\ ~Expired(lastOp.ret, now'))
          => /\ lastOp'.ret = lastOp.ret
             /\ sessionStore' = sessionStore]_vars

\* the second of two such calls, made later than the first
C8_Witness ==
    /\ lastOp.op = "getOrCreateSession" /\ lastOp.id # "" /\ lastOp.again
    /\ lastOp.ret.sessionId = lastOp.id
    /\ lastOp.ret.updatedAt < now
    /\ Len(sessionStore) > 1

\* C9: getOrCreateSession(workingDir) without an id returns the unexpired
\* session of the derived workspace with the greatest updatedAt, and creates a
\* session under a generated id only when the workspace has no unexpired
\* session; it never returns an expired session or one of another workspace.
C9_WorkspaceMostRecent ==
    [][(lastOp'.op = "getOrCreateSession" /\ lastOp'.id = "") =>
          LET workspaceId == generateWorkspaceId(lastOp'.dir, GitHead)
              live == {i \in 1..Len(sessionStore) :
                          /\ sessionStore[i].workspaceId = workspaceId
                          /\ ~Expired(sessionStore[i], now')}
              ret == lastOp'.ret
          IN  /\ ret.workspaceId = workspaceId
              /\ ~Expired(ret, now')
              /\ IF live # {}
                 THEN \E i \in live :
                         /\ ret = sessionStore[i]
                         /\ \A j \in live :
                               sessionStore[j].updatedAt <= sessionStore[i].updatedAt
                 ELSE /\ ret.sessionId = generateSessionId(genCount)
                      /\ ret.createdAt = now']_vars

----------------------------------------------------------------------------
(* Properties of ask-codex with sessions *)

C10_WorkspaceIsolation ==
    (/\ lastOp.op \in {"ask-codex", "ask-codex(reset)"}
     /\ build.options.codexConversationId # "")
        => lastOp.ret.workspaceId = generateWorkspaceId(lastOp.dir, GitHead)

\* C11: an ask-codex call with sessionId S and resetSession true builds its
\* command without any conversation id: build receives no codexConversationId,
\* the result is not in resume mode and the tokens hold no resume subcommand,
\* whatever the store held for S when the call began.
C11_ResetNeverResumes ==
    lastOp.op = "ask-codex(reset)"
        => /\ Built
           /\ build.options.codexConversationId = ""
           /\ ~build.useResume
           /\ ~HasToken(FLAGS.RESUME)

\* the call found an unexpired record of S1 holding conv-1, with a version that
\* supports resume, and started the external process
C11_Witness ==
    /\ lastOp.op = "ask-codex(reset)" /\ lastOp.id = "S1"
    /\ lastOp.had = "conv-1"
    /\ lastOp.ret.sessionId = "S1" /\ lastOp.ret.createdAt = now
    /\ supportsResume(build.env.version)
    /\ ~build.threw
    /\ build.options.codexConversationId = ""

\* C19: an ask-codex call whose options combine yolo with approvalPolicy or
\* sandboxMode fails before any side effect: with or without resetSession the
\* session store after the call is the store before it, and no external
\* process is started.
C19_ConflictLeavesStoreAlone ==
    [][(/\ lastOp'.op \in {"ask-codex", "ask-codex(reset)"}
        /\ Conflict(build'.options))
          => /\ build'.threw
             /\ sessionStore' = sessionStore
             /\ inflight' = inflight]_vars

----------------------------------------------------------------------------
(* Properties of the tokens of a build *)

\* the number of places where the adjacent tokens flag, value occur
CountPair(args, flag, value) ==
    Cardinality({i \in 1..(Len(args) - 1) : args[i] = flag /\ args[i + 1] = value})

Occurrences(seq, x) == Cardinality({i \in 1..Len(seq) : seq[i] = x})

Returned == Built /\ ~build.threw

\* C12 as stated: when search is requested the tokens hold the adjacent pair
\* --enable web_search_request exactly once whatever the version, and the
\* token --search exactly when the version is valid and at least 0.52.0.
C12_SearchFlagExactlyOnce ==
    (Returned /\ build.options.search)
        => /\ CountPair(build.args, FLAGS.ENABLE, "web_search_request") = 1
           /\ HasToken(FLAGS.SEARCH) <=> supportsNativeSearch(build.env.version)

\* C12 amended: when search is requested the tokens hold the pair
\* --enable web_search_request whatever the version: once when the caller's
\* enableFeatures names web_search_request at most once, otherwise once for
\* each time enableFeatures names it; and they hold the token --search exactly
\* when the version is valid and at least 0.52.0.
C12_SearchFlagAlways ==
    (Returned /\ build.options.search)
        => /\ CountPair(build.args, FLAGS.ENABLE, "web_search_request")
                = (IF Occurrences(build.options.enableFeatures, "web_search_request") > 1
                   THEN Occurrences(build.options.enableFeatures, "web_search_request")
                   ELSE 1)
           /\ HasToken(FLAGS.SEARCH) <=> supportsNativeSearch(build.env.version)

\* search with a version below the native-search threshold and the feature
\* already named once by the caller
C12_Witness ==
    /\ Returned /\ build.options.search
    /\ build.env.version = Ver(0, 36, 0)
    /\ build.options.enableFeatures = <<"web_search_request", "f1">>
    /\ CountPair(build.args, FLAGS.ENABLE, "web_search_request") = 1
    /\ ~HasToken(FLAGS.SEARCH)
    /\ CountPair(build.args, FLAGS.SANDBOX_MODE, "workspace-write") = 1

\* C13: in the tokens a build returns, --sandbox workspace-write occurs exactly
\* once, and --sandbox nowhere else, when search, oss or localProvider is
\* requested and none of sandboxMode, fullAuto, yolo is set; with an explicit
\* sandboxMode every --sandbox token is followed by the explicit value; with
\* fullAuto or yolo there is no --sandbox token.
C13_SandboxSelection ==
    Returned =>
        /\ (/\ \/ build.options.search \/ build.options.oss
                \/ build.options.localProvider # ""
             /\ build.options.sandboxMode = ""
             /\ ~build.options.fullAuto /\ ~build.options.yolo)
               => /\ CountPair(build.args, FLAGS.SANDBOX_MODE, "workspace-write") = 1
                  /\ Occurrences(build.args, FLAGS.SANDBOX_MODE) = 1
        /\ build.options.sandboxMode # ""
               => CountPair(build.args, FLAGS.SANDBOX_MODE, build.options.sandboxMode)
                    = Occurrences(build.args, FLAGS.SANDBOX_MODE)
        /\ (build.options.fullAuto \/ build.options.yolo)
               => ~HasToken(FLAGS.SANDBOX_MODE)

\* an explicit read-only sandbox together with oss: the explicit value is the
\* one emitted
C13_Witness ==
    /\ Returned
    /\ build.options.oss /\ build.options.sandboxMode = "read-only"
    /\ ~build.options.fullAuto
    /\ CountPair(build.args, FLAGS.SANDBOX_MODE, "read-only") = 1
    /\ Occurrences(build.args, FLAGS.SANDBOX_MODE) = 1

\* C14: build throws exactly when the options combine yolo with approvalPolicy
\* or sandboxMode.  Whatever the version probe, the model probes and the
\* temp-file write do, and whichever gated or invalid options are given, every
\* other build returns a token sequence that ends with the prompt token.
C14_OnlyConflictThrows ==
    Built =>
        /\ build.threw <=> Conflict(build.options)
        /\ ~Conflict(build.options)
               => /\ build.args # <<>>
                  /\ build.args[Len(build.args)]
                        \in {build.finalPrompt.text, "@" \o build.tempFile}

\* the version is unparsable, the probe of the default model fails outright
\* and the temp file of a long prompt cannot be written: build still returns
C14_Witness ==
    /\ Built /\ ~build.threw
    /\ ~build.env.version.isValid
    /\ build.env.probe[MODELS.GPT5_1_CODEX_MAX] = "broken"
    /\ build.prompt.length > MAX_COMMAND_LINE_LENGTH /\ ~build.env.writeOk
    /\ build.args # <<>>
    /\ build.tempFile = ""

\* the value of tool_output_token_limit the options ask for, as a -c value
LimitConfig(options) ==
    "tool_output_token_limit=" \o ToString(options.toolOutputTokenLimit)

\* C17: in the tokens a build returns, --add-dir <dir> occurs once for each
\* requested directory when addDirs was given and the version supports
\* ADD_DIR, and --add-dir does not occur otherwise; -c tool_output_token_limit=<n>
\* occurs exactly when toolOutputTokenLimit was given and the version supports
\* TOOL_TOKEN_LIMIT; and when a gate is not satisfied the tokens are those of
\* the same build without the gated option.
C17_GatedOptions ==
    [][Returned' =>
        LET o == build'.options
            v == build'.env.version
            Tokens(opts) ==
                buildCommand(build'.prompt, opts, build'.env, modelCache, tempFiles).args
        IN  /\ Occurrences(build'.args, FLAGS.ADD_DIR)
                 = (IF o.addDirsGiven /\ supportsAddDir(v) THEN Len(o.addDirs) ELSE 0)
            /\ (o.addDirsGiven /\ supportsAddDir(v))
                   => \A i \in 1..Len(o.addDirs) :
                          CountPair(build'.args, FLAGS.ADD_DIR, o.addDirs[i]) = 1
            /\ CountPair(build'.args, FLAGS.CONFIG, LimitConfig(o))
                 = (IF o.toolOutputTokenLimit # 0 /\ supportsToolTokenLimit(v)
                    THEN 1 ELSE 0)
            /\ (o.addDirsGiven /\ ~supportsAddDir(v))
                   => build'.args
                        = Tokens([o EXCEPT !.addDirsGiven = FALSE, !.addDirs = <<>>])
            /\ (o.toolOutputTokenLimit # 0 /\ ~supportsToolTokenLimit(v))
                   => build'.args = Tokens([o EXCEPT !.toolOutputTokenLimit = 0])]_vars

\* both gated options with search on a version that has native search but
\* neither gated capability: the two options are left out, --search is kept
C17_Witness ==
    /\ Returned
    /\ build.options.addDirsGiven /\ build.options.toolOutputTokenLimit # 0
    /\ build.options.search
    /\ build.env.version = Ver(0, 52, 0)
    /\ ~HasToken(FLAGS.ADD_DIR)
    /\ CountPair(build.args, FLAGS.CONFIG, LimitConfig(build.options)) = 0
    /\ HasToken(FLAGS.SEARCH)

\* the safety groups whose tokens the build holds
BypassGroup == HasToken(FLAGS.YOLO)
FullAutoGroup == HasToken(FLAGS.FULL_AUTO)
ApprovalTokens == HasToken(FLAGS.ASK_FOR_APPROVAL) \/ HasToken(FLAGS.APPROVAL)
SandboxTokens == HasToken(FLAGS.SANDBOX_MODE)

Num(p) == IF p THEN 1 ELSE 0

\* C18 as stated: every token sequence a build returns holds the tokens of
\* exactly one of the groups bypass, full-auto, approval policy (with or
\* without a sandbox mode).
C18_ExactlyOneSafetyGroup ==
    Returned => Num(BypassGroup) + Num(FullAutoGroup) + Num(ApprovalTokens) = 1

\* C18 amended: every token sequence a build returns holds the tokens of at
\* most one of the groups bypass, full-auto, approval policy and/or sandbox
\* mode: of exactly one when yolo, fullAuto, approvalPolicy, approval or
\* sandboxMode is given or search, oss or localProvider selects the sandbox
\* mode automatically, and of none otherwise.
C18_AtMostOneSafetyGroup ==
    Returned =>
        Num(BypassGroup) + Num(FullAutoGroup) + Num(ApprovalTokens \/ SandboxTokens)
          = Num(\/ build.options.yolo \/ build.options.fullAuto
                \/ build.options.approvalPolicy # "" \/ build.options.approval # ""
                \/ build.options.sandboxMode # ""
                \/ build.options.search \/ build.options.oss
                \/ build.options.localProvider # "")

\* fullAuto given together with an approval policy and search: only the
\* full-auto group is in the tokens
C18_Witness ==
    /\ Returned
    /\ build.options.fullAuto /\ build.options.approvalPolicy # ""
    /\ build.options.search
    /\ FullAutoGroup /\ ~BypassGroup /\ ~ApprovalTokens /\ ~SandboxTokens

\* C20: in what a build returns, the last token is the file reference
\* @<tempfile>, and tempFile names that file, exactly when the final prompt
\* (the caller's prompt with the instruction put before it) is longer than
\* 100,000, useStdinForLongPrompts is not false and the file was written;
\* otherwise the last token is the final prompt text and tempFile is undefined.
C20_PromptTransport ==
    Returned =>
        IF /\ build.finalPrompt.length > MAX_COMMAND_LINE_LENGTH
           /\ build.options.useStdinForLongPrompts
           /\ build.env.writeOk
        THEN /\ build.tempFile # ""
             /\ build.args[Len(build.args)] = "@" \o build.tempFile
             /\ build.tempFile \in tempFiles
        ELSE /\ build.tempFile = ""
             /\ build.args[Len(build.args)] = build.finalPrompt.text

\* a prompt of exactly 100,000 that the concise instruction makes longer
C20_Witness ==
    /\ Returned
    /\ build.prompt.length = MAX_COMMAND_LINE_LENGTH
    /\ build.options.concisePrompt
    /\ build.finalPrompt.length > MAX_COMMAND_LINE_LENGTH
    /\ build.tempFile # ""
    /\ build.args[Len(build.args)] = "@" \o build.tempFile

----------------------------------------------------------------------------
(* Properties of model resolution *)

\* build asked getModelWithFallback for the model (neither oss nor localProvider)
Resolved ==
    /\ Returned
    /\ ~build.options.oss /\ build.options.localProvider = ""

\* the models whose availability the executor was asked to test, in order
Probed == SelectSeq(build.calls, LAMBDA c : c # "cliCheck" /\ SubSeq(c, 1, 10) = "modelTest:")

IsPrefix(a, b) == Len(a) <= Len(b) /\ a = SubSeq(b, 1, Len(a))

\* the priority list and the last resort the README and C16 name
DocumentedFallback ==
    <<"modelTest:gpt-5.1-codex-max", "modelTest:gpt-5-codex", "modelTest:gpt-5">>

\* C15: getModelWithFallback(name) returns a model whatever the probes do: the
\* name itself when it is in the catalogue and probes available, otherwise
\* what getDefaultModel() returns; the value returned is a model name, never
\* undefined.
C15_ModelAlwaysResolved ==
    [][Resolved' =>
        LET requested == build'.options.model
            r0 == FreshBuilder(modelCache, tempFiles)
            r1 == IF requested # "" /\ isValidModel(requested)
                  THEN isModelAvailable(r0, requested, FALSE, build'.env)
                  ELSE r0
        IN  /\ build'.model \notin {"", UNDEFINED}
            /\ IF requested # "" /\ isValidModel(requested) /\ r1.available
               THEN build'.model = requested
               ELSE build'.model = getDefaultModel(r1, build'.env).model]_vars

\* C16: getDefaultModel() probes gpt-5.1-codex-max, gpt-5-codex, gpt-5 in that
\* order, stops at the first that probes available and returns it, returns
\* gpt-5-codex when none does, and so always returns a defined model name.
C16_DefaultModelChain ==
    (Resolved /\ build.options.model = "")
        => /\ IsPrefix(Probed, DocumentedFallback)
           /\ build.model \in {"gpt-5.1-codex-max", "gpt-5-codex", "gpt-5"}
           /\ build.env.probe[MODELS.GPT5_1_CODEX_MAX] = "ok"
                  => build.model = MODELS.GPT5_1_CODEX_MAX

----------------------------------------------------------------------------
(* Properties of the executor *)

Ended ==
    /\ lastOp.op \in {"executeCodexCLI", "executeCodex"}
    /\ lastOp.how \in {"returned", "threw"}

\* the temp files of the executions that are still running
RunningFiles == {inflight[i].tempFile : i \in 1..Len(inflight)} \ {""}

----------------------------------------------------------------------------
(* Properties of error classification *)

\* the keyword groups in the order of the categories: tool-not-found,
\* authentication, rate-limit, timeout, sandbox/permission, network, session
KeywordGroups ==
    <<[category |-> "CLI_NOT_FOUND", keywords |-> {"command not found", "not found", "enoent"}],
      [category |-> "AUTHENTICATION",
       keywords |-> {"authentication", "unauthorized", "api key", "401"}],
      [category |-> "RATE_LIMIT",
       keywords |-> {"rate limit", "quota", "too many requests", "429"}],
      [category |-> "TIMEOUT", keywords |-> {"timeout", "timed out", "etimedout"}],
      [category |-> "SANDBOX", keywords |-> {"sandbox", "permission", "denied", "access"}],
      [category |-> "NETWORK",
       keywords |-> {"network", "connect", "econnrefused", "enotfound"}],
      [category |-> "SESSION", keywords |-> {"session", "expired", "conversation id"}]>>

\* the groups with a keyword contained in the lowercased message
MatchingGroups(message) ==
    {g \in 1..Len(KeywordGroups) :
        \E k \in KeywordGroups[g].keywords : includes(toLowerCase(message), k)}

\* C22: classifyError(message) is the category of the first keyword group, in
\* the fixed order, that has a keyword contained in the lowercased message,
\* and UNKNOWN when no group has one; Rate limit exceeded (429) is RATE_LIMIT
\* and retryable, and spawn codex ENOENT is CLI_NOT_FOUND.
C22_FirstMatchingGroup ==
    lastOp.op = "classifyError"
        => /\ LET matching == MatchingGroups(lastOp.message)
              IN  IF matching = {} THEN lastOp.ret = "UNKNOWN"
                  ELSE lastOp.ret
                         = KeywordGroups[CHOOSE g \in matching :
                                            \A h \in matching : g <= h].category
           /\ lastOp.message = "Rate limit exceeded (429)"
                  => lastOp.ret = "RATE_LIMIT" /\ lastOp.retryable
           /\ lastOp.message = "spawn codex ENOENT" => lastOp.ret = "CLI_NOT_FOUND"

\* a message with a rate-limit keyword before an authentication keyword is
\* classified by the order of the groups, not by the order of the words
C22_Witness ==
    /\ lastOp.op = "classifyError"
    /\ lastOp.message = "Rate limit exceeded (429): Unauthorized"
    /\ lastOp.ret = "AUTHENTICATION" /\ ~lastOp.retryable

\* the base delay of each category in milliseconds
BaseDelay(category) ==
    CASE category = "RATE_LIMIT" -> 60000
      [] category = "NETWORK" -> 10000
      [] category \in {"TIMEOUT", "UNKNOWN"} -> 5000
      [] OTHER -> 0

\* min(base * 2^(attempt-1) + jitter, 300000) as a number; a positive base
\* times 2^21 or more is above the cap
CappedBackoff(category, attempt, jitter) ==
    IF BaseDelay(category) = 0 THEN jitter
    ELSE IF attempt > 21 THEN 300000
    ELSE Min(BaseDelay(category) * 2^(attempt - 1) + jitter, 300000)

\* C23: getRetryDelay(category, attempt) for every category and every attempt
\* from 1 on is the number min(base * 2^(attempt-1) + jitter, 300000), so it is
\* at most 300000, and for RATE_LIMIT, TIMEOUT and NETWORK the delay of the
\* next attempt is never less, whatever the two jitters are.
C23_RetryDelay ==
    lastOp.op = "getRetryDelay"
        => /\ lastOp.ret
                = [kind |-> "finite",
                   v |-> CappedBackoff(lastOp.category, lastOp.attempt, lastOp.jitter)]
           /\ lastOp.ret.v <= 300000
           /\ isRetryableError(lastOp.category)
                  => \A jitter \in Jitters :
                         LET next == getRetryDelay(lastOp.category, lastOp.attempt + 1,
                                                   jitter)
                         IN  next.kind = "finite" /\ next.v >= lastOp.ret.v

----------------------------------------------------------------------------
(* Properties of version detection *)

\* a comes before b in the lexicographic order of (major, minor, patch)
Before(a, b) ==
    \/ a.major < b.major
    \/ a.major = b.major /\ a.minor < b.minor
    \/ a.major = b.major /\ a.minor = b.minor /\ a.patch < b.patch

\* C24: compareVersions is negative, zero or positive as the version comes
\* before, is equal to or comes after the threshold in the lexicographic order
\* of (major, minor, patch); meetsMinVersion and isFeatureAvailable answer true
\* exactly when the version is valid and does not come before the threshold,
\* so an invalid version passes no gate whatever its numbers are.
C24_VersionGate ==
    lastOp.op \in {"meetsMinVersion", "isFeatureAvailable"}
        => /\ lastOp.op = "meetsMinVersion"
                => /\ lastOp.compared < 0 <=> Before(lastOp.version, lastOp.minVersion)
                   /\ lastOp.compared > 0 <=> Before(lastOp.minVersion, lastOp.version)
                   /\ lastOp.compared = 0
                          <=> /\ lastOp.version.major = lastOp.minVersion.major
                              /\ lastOp.version.minor = lastOp.minVersion.minor
                              /\ lastOp.version.patch = lastOp.minVersion.patch
           /\ lastOp.ret
                  <=> /\ lastOp.version.isValid
                      /\ ~Before(lastOp.version, lastOp.minVersion)

\* an invalid version whose numbers are above the threshold was refused
C24_Witness ==
    /\ lastOp.op = "meetsMinVersion"
    /\ ~lastOp.version.isValid
    /\ Before(lastOp.minVersion, lastOp.version)
    /\ ~lastOp.ret

\* the texts of the shape [tool name] [v] major.minor.patch and their numbers
WellFormed ==
    {[text |-> tool \o v \o core[1], tool |-> tool,
      major |-> core[2], minor |-> core[3], patch |-> core[4]] :
        tool \in {"", "codex ", "codex-cli "}, v \in {"", "v"},
        core \in {<<"0.59.0", 0, 59, 0>>, <<"0.52.1", 0, 52, 1>>, <<"1.2.3", 1, 2, 3>>,
                  <<"10.0.7", 10, 0, 7>>, <<"007.08.09", 7, 8, 9>>}}

\* the shapes of the text parsed: getCodexVersion reads the tool name too
ShapesOf(op, text) ==
    {w \in WellFormed : w.text = text /\ (op = "parseVersion" => w.tool = "")}

\* C25: a text of the shape [tool name] [v] major.minor.patch parses to
\* exactly that triple with isValid = true; every other text, and a failed
\* version query, gives isValid = false with the triple (0, 0, 0).
C25_VersionParsing ==
    lastOp.op \in {"parseVersion", "getCodexVersion"}
        => IF ~lastOp.failed /\ ShapesOf(lastOp.op, lastOp.text) # {}
           THEN \A w \in ShapesOf(lastOp.op, lastOp.text) :
                    /\ lastOp.ret.isValid
                    /\ <<lastOp.ret.major, lastOp.ret.minor, lastOp.ret.patch>>
                           = <<w.major, w.minor, w.patch>>
           ELSE /\ ~lastOp.ret.isValid
                /\ <<lastOp.ret.major, lastOp.ret.minor, lastOp.ret.patch>> = <<0, 0, 0>>

\* positions from..to of s hold decimal digits, at least one
DigitRun(s, from, to) ==
    /\ from <= to
    /\ \A k \in from..to : charAt(s, k) \in {"0", "1", "2", "3", "4", "5", "6", "7", "8", "9"}

\* the triples of the runs digits.digits.digits of s that start at position i
RunsAt(s, i) ==
    {<<parseInt(SubSeq(s, i, dot1 - 1)), parseInt(SubSeq(s, dot1 + 1, dot2 - 1)),
       parseInt(SubSeq(s, dot2 + 1, end))>> :
        <<dot1, dot2, end>> \in
            {t \in {k \in 1..Len(s) : charAt(s, k) = "."}
                       \X {k \in 1..Len(s) : charAt(s, k) = "."} \X (1..Len(s)) :
                /\ DigitRun(s, i, t[1] - 1) /\ charAt(s, t[1]) = "."
                /\ DigitRun(s, t[1] + 1, t[2] - 1) /\ charAt(s, t[2]) = "."
                /\ DigitRun(s, t[2] + 1, t[3])}}

\* the triples a text may parse to: parseVersion looks where the text begins
\* once one leading v and then the white space are skipped, getCodexVersion
\* looks everywhere
Runs(op, text) ==
    IF op = "getCodexVersion" THEN UNION {RunsAt(text, i) : i \in 1..Len(text)}
    ELSE LET skip == IF charAt(text, 1) = "v" THEN 1 ELSE 0
             start == CHOOSE i \in (skip + 1)..(Len(text) + 1) :
                          /\ charAt(text, i) \notin {" ", "\t", "\n"}
                          /\ \A k \in (skip + 1)..(i - 1) :
                                 charAt(text, k) \in {" ", "\t", "\n"}
         IN  RunsAt(text, start)

\* C25 (amended): a text of the shape [tool name] [v] major.minor.patch parses
\* to exactly that triple with isValid = true; any other text parses to a
\* valid version exactly when it holds a run digits.digits.digits where the
\* function looks, and then to the triple of such a run; a text without one,
\* and a failed version query, give isValid = false with the triple (0, 0, 0).
C25_VersionParsingLenient ==
    lastOp.op \in {"parseVersion", "getCodexVersion"}
        => /\ ~lastOp.failed
                => /\ \A w \in ShapesOf(lastOp.op, lastOp.text) :
                          /\ lastOp.ret.isValid
                          /\ <<lastOp.ret.major, lastOp.ret.minor, lastOp.ret.patch>>
                                 = <<w.major, w.minor, w.patch>>
                   /\ lastOp.ret.isValid <=> Runs(lastOp.op, lastOp.text) # {}
                   /\ lastOp.ret.isValid
                          => <<lastOp.ret.major, lastOp.ret.minor, lastOp.ret.patch>>
                                 \in Runs(lastOp.op, lastOp.text)
           /\ lastOp.failed => ~lastOp.ret.isValid /\ lastOp.ret.raw = "unknown"
           /\ ~lastOp.ret.isValid
                  => <<lastOp.ret.major, lastOp.ret.minor, lastOp.ret.patch>> = <<0, 0, 0>>

\* a text with a suffix after the version was parsed to a valid version
C25_Witness ==
    /\ lastOp.op = "parseVersion"
    /\ lastOp.text = "v0.59.0-beta"
    /\ lastOp.ret.isValid
    /\ lastOp.ret.minor = 59

----------------------------------------------------------------------------
(* Properties of the final prompt and of the order of the tokens *)

\* text ends with suffix
EndsWith(text, suffix) ==
    /\ Len(suffix) <= Len(text)
    /\ SubSeq(text, Len(text) - Len(suffix) + 1, Len(text)) = suffix

\* C26: with changeMode the final prompt of a build ends with the edit-block
\* instructions followed by the caller's prompt, and with concisePrompt it
\* begins with the brevity instruction; with both it holds the brevity
\* instruction, the edit-block instructions and the caller's prompt.
C26_PromptInstructions ==
    Returned
        => /\ build.options.changeMode
                => EndsWith(build.finalPrompt.text,
                            CHANGE_MODE_INSTRUCTIONS \o build.prompt.text)
           /\ build.options.concisePrompt
                => SubSeq(build.finalPrompt.text, 1, Len(CONCISE_INSTRUCTION))
                       = CONCISE_INSTRUCTION
           /\ EndsWith(build.finalPrompt.text, build.prompt.text)

\* C27: in the tokens of a build, --oss and --local-provider stand only after
\* the subcommand token exec, whatever the options are, useExec = false
\* included.
C27_ProviderFlagsAfterExec ==
    Returned
        => \A i \in 1..Len(build.args) :
               build.args[i] \in {FLAGS.OSS, FLAGS.LOCAL_PROVIDER}
                   => \E j \in 1..(i - 1) : build.args[j] = "exec"

\* C28: when a build resumes a conversation its tokens hold neither --oss nor
\* --local-provider; a requested localProvider is the pair
\* -c model_provider=<provider> right after exec resume <id>, and without a
\* localProvider no token names a model provider, oss or not.
C28_ResumeProviderOverride ==
    (Returned /\ build.useResume)
        => /\ ~HasToken(FLAGS.OSS)
           /\ ~HasToken(FLAGS.LOCAL_PROVIDER)
           /\ build.options.localProvider # ""
                => \E i \in 1..Len(build.args) :
                       /\ i > 3
                       /\ SubSeq(build.args, i - 3, i + 1)
                              = <<"exec", FLAGS.RESUME, build.options.codexConversationId,
                                  FLAGS.CONFIG,
                                  "model_provider=" \o build.options.localProvider>>
           /\ build.options.localProvider = ""
                => \A i \in 1..Len(build.args) :
                       ~IsPrefix("model_provider=", build.args[i])

\* a resumed build with a local provider carries the override pair
C28_Witness ==
    /\ Returned
    /\ build.useResume
    /\ build.options.localProvider # ""
    /\ CountPair(build.args, FLAGS.CONFIG,
                 "model_provider=" \o build.options.localProvider) = 1

\* C29: a build with oss or localProvider runs no model probe and leaves the
\* model cache as it was; its tokens hold -m <model> once with the name as
\* supplied when a model was given, and no -m when none was given.
C29_LocalModeSkipsResolver ==
    [][(/\ build.phase = "idle"
        /\ Returned'
        /\ (build'.options.oss \/ build'.options.localProvider # ""))
        => /\ modelCache' = modelCache
           /\ \A i \in 1..Len(build'.calls) :
                  /\ build'.calls[i] # "cliCheck"
                  /\ ~IsPrefix("modelTest:", build'.calls[i])
           /\ Occurrences(build'.args, FLAGS.MODEL)
                  = (IF build'.options.model # "" THEN 1 ELSE 0)
           /\ build'.options.model # ""
                  => CountPair(build'.args, FLAGS.MODEL, build'.options.model) = 1]_vars

\* a local-provider build passed on a model name that the catalogue does not
\* hold, and nothing was probed
C29_Witness ==
    /\ Returned
    /\ build.options.localProvider # ""
    /\ build.options.model # ""
    /\ ~isValidModel(build.options.model)
    /\ CountPair(build.args, FLAGS.MODEL, build.options.model) = 1
    /\ build.calls = <<"resolveWorkingDirectory">>

\* the construction group a flag belongs to, from 1 (model) to 13 (provider);
\* a -c flag is told by the value after it; 0 for a token that is no flag
FlagGroup(flag, value) ==
    CASE flag = FLAGS.MODEL -> 1
      [] flag \in {FLAGS.YOLO, FLAGS.FULL_AUTO, FLAGS.APPROVAL, FLAGS.ASK_FOR_APPROVAL,
                   FLAGS.SANDBOX_MODE} -> 2
      [] flag \in {FLAGS.WORKING_DIR, FLAGS.CD} -> 3
      [] flag \in {FLAGS.SEARCH, FLAGS.ENABLE} -> 4
      [] flag = FLAGS.DISABLE -> 5
      [] flag = FLAGS.ADD_DIR -> 6
      [] flag = FLAGS.CONFIG /\ IsPrefix("tool_output_token_limit=", value) -> 7
      [] flag = FLAGS.CONFIG /\ IsPrefix("model_reasoning_effort=", value) -> 8
      [] flag = FLAGS.CONFIG /\ IsPrefix("model_provider=", value) -> 13
      [] flag = FLAGS.CONFIG -> 9
      [] flag = FLAGS.PROFILE -> 10
      [] flag = FLAGS.IMAGE -> 11
      [] flag \in {"exec", FLAGS.RESUME} -> 12
      [] flag \in {FLAGS.OSS, FLAGS.LOCAL_PROVIDER} -> 13
      [] OTHER -> 0

\* the group of the token at position i: the last token is the prompt (14), a
\* flag has its own group, a value that of the flag before it, and a token
\* that is none of these has group 99
TokenGroup(args, i) ==
    LET next == IF i < Len(args) THEN args[i + 1] ELSE ""
    IN  IF i = Len(args) THEN 14
        ELSE IF FlagGroup(args[i], next) # 0 THEN FlagGroup(args[i], next)
        ELSE IF i > 1 /\ FlagGroup(args[i - 1], args[i]) # 0
        THEN FlagGroup(args[i - 1], args[i])
        ELSE 99

\* C30: in the tokens of a build the groups stand in the construction order:
\* model, safety, working directory, enable/search, disable, add-dir, output
\* limit, reasoning effort, config, profile and image tokens, then the
\* subcommand, then the provider tokens, which follow the subcommand token
\* exec, and last the prompt, which is one token: the inline text or the file
\* reference.
C30_TokenOrder ==
    Returned
        => /\ \A i, j \in 1..Len(build.args) :
                  i < j => TokenGroup(build.args, i) <= TokenGroup(build.args, j)
           /\ \A i \in 1..Len(build.args) :
                  TokenGroup(build.args, i) = 13
                      => \E j \in 1..(i - 1) : build.args[j] = "exec"
           /\ Len(build.args) >= 1
           /\ build.args[Len(build.args)]
                  = (IF build.tempFile # "" THEN "@" \o build.tempFile
                     ELSE build.finalPrompt.text)
           /\ Occurrences(build.args, build.args[Len(build.args)]) = 1

----------------------------------------------------------------------------
(* Properties of builder instances *)

\* the results builds have returned so far
ReturnedResults ==
    IF build.phase = "shared"
    THEN {build.returned[i] : i \in 1..Len(build.returned)}
    ELSE {}

\* C31: the tokens and the resume flag a build has returned are those of the
\* same prompt and options on a builder of its own, also when two builds on
\* one instance overlap, and they stay so whatever builds come later.
C31_FreshTokenBuffer ==
    \A r \in ReturnedResults :
        /\ r.threw = r.want.threw
        /\ ~r.threw => /\ build.heap[r.args] = r.want.args
                       /\ r.useResume = r.want.useResume

\* C31 (amended): the same of every build during which no other build ran on
\* the same instance; builds on other instances may overlap with it.
C31_FreshTokenBufferAlone ==
    \A r \in ReturnedResults :
        r.alone
            => /\ r.threw = r.want.threw
               /\ ~r.threw => /\ build.heap[r.args] = r.want.args
                              /\ r.useResume = r.want.useResume

\* two builds with different tokens have returned from the same instance, one
\* after the other
C31_Witness ==
    /\ build.phase = "shared"
    /\ Len(build.returned) = 2
    /\ \A i \in 1..2 : /\ build.returned[i].on = 1
                       /\ build.returned[i].alone
                       /\ ~build.returned[i].threw
    /\ build.heap[build.returned[1].args] # build.heap[build.returned[2].args]
    /\ build.returned[1].useResume /\ ~build.returned[2].useResume

----------------------------------------------------------------------------
(* Properties of saveSession and of expired sessions *)

\* partial records saved under id: a conversation id, a prompt with its
\* response, and a model with a workspace
SavePartials(id) ==
    {[NoData EXCEPT !.sessionId = id, !.codexConversationId = "conv-2"],
     [NoData EXCEPT !.sessionId = id, !.lastPrompt = "p2", !.lastResponse = "r2"],
     [NoData EXCEPT !.sessionId = id, !.model = "gpt-5.2", !.workspaceId = "w2"]}

\* the record saveSession(data) is to leave under data.sessionId when old is
\* the record stored before: supplied fields replace, the others stay
Merged(old, data, t) ==
    [sessionId |-> data.sessionId,
     workspaceId |-> IF data.workspaceId # "" THEN data.workspaceId ELSE old.workspaceId,
     codexConversationId |-> IF data.codexConversationId # ""
                             THEN data.codexConversationId ELSE old.codexConversationId,
     lastPrompt |-> IF data.lastPrompt # "" THEN data.lastPrompt ELSE old.lastPrompt,
     lastResponse |-> IF data.lastResponse # "" THEN data.lastResponse
                      ELSE old.lastResponse,
     model |-> IF data.model # "" THEN data.model ELSE old.model,
     workingDir |-> IF data.workingDir # "" THEN data.workingDir ELSE old.workingDir,
     createdAt |-> old.createdAt,
     updatedAt |-> t]

\* C32: in every state of the store, saveSession(partial) at any later time
\* leaves under the id the merge of the stored record and partial when an
\* unexpired record exists (unsupplied fields and createdAt kept, updatedAt
\* the current time) and a record with createdAt = updatedAt = now when none
\* exists; every other record stored after the call is as it was before.
C32_SaveMerges ==
    \A t \in Times, id \in SessionIds :
        \A data \in SavePartials(id) :
            LET r == saveSession(sessionStore, data, t)
            IN  /\ IndexOf(r.store, id) > 0
                /\ At(r.store, id) = r.ret
                /\ IF Live(sessionStore, id, t)
                   THEN r.ret = Merged(At(sessionStore, id), data, t)
                   ELSE r.ret = Merged([NullSession EXCEPT !.createdAt = t], data, t)
                /\ \A j \in 1..Len(r.store) :
                       r.store[j].sessionId # id
                           => /\ IndexOf(sessionStore, r.store[j].sessionId) > 0
                              /\ At(sessionStore, r.store[j].sessionId) = r.store[j]

\* C38: in every state of the store and at every later time, for a session
\* whose age exceeds the TTL: getCodexConversationId returns undefined,
\* setCodexConversationId creates nothing and leaves no record under the id,
\* and saveSession or getOrCreateSession under the id, also after one of those
\* calls, yields a record created at that time whose conversation id is the
\* one supplied to the call, never the expired record's.
C38_ExpiredNeverResumed ==
    \A t \in Times, id \in SessionIds :
        (IndexOf(sessionStore, id) > 0 /\ Expired(At(sessionStore, id), t)) =>
            LET got == getCodexConversationId(sessionStore, id, t)
                set == setCodexConversationId(sessionStore, id, "conv-2", t)
                Fresh(r, conversationId) ==
                    /\ r.ret.createdAt = t
                    /\ r.ret.codexConversationId = conversationId
                    /\ At(r.store, id) = r.ret
            IN  /\ got.ret.codexConversationId = ""
                /\ set.made = 0
                /\ id \notin Ids(set.store)
                /\ \A store \in {sessionStore, got.store, set.store} :
                      /\ \A data \in SavePartials(id) :
                             Fresh(saveSession(store, data, t), data.codexConversationId)
                      /\ \A dir \in WorkDirs :
                             Fresh(getOrCreateSession(store, dir, id, t, GitHead,
                                                      genCount), "")

\* the store holds a record with a conversation id whose age exceeds the TTL
C38_Witness ==
    \E id \in SessionIds :
        /\ IndexOf(sessionStore, id) > 0
        /\ At(sessionStore, id).codexConversationId = "conv-1"
        /\ Expired(At(sessionStore, id), now)
        /\ lastOp.op \in {"deleteSession", "getSession"}

----------------------------------------------------------------------------
(* Properties of the model cache *)

C34_ConclusiveOutcomesCached ==
    (lastOp.op = "isModelAvailable" /\ lastOp.probed)
        => /\ lastOp.ret = (lastOp.outcome = "ok")
           /\ lastOp.outcome = "broken"
                  => /\ EntryOf(modelCache, lastOp.model) = lastOp.prior
                     /\ lastOp.model \in DOMAIN modelCache <=> lastOp.prior.timestamp # 0
           /\ lastOp.outcome # "broken"
                  => /\ lastOp.model \in DOMAIN modelCache
                     /\ modelCache[lastOp.model]
                            = [available |-> lastOp.outcome = "ok", timestamp |-> now]
           /\ lastOp.othersKept

\* the tool did not run while the cache held an older entry of the model, which
\* is still there
C34_Witness ==
    /\ lastOp.op = "isModelAvailable" /\ lastOp.probed
    /\ lastOp.outcome = "broken"
    /\ lastOp.model \in DOMAIN modelCache
    /\ modelCache[lastOp.model].available
    /\ modelCache[lastOp.model].timestamp < now

\* C36: whatever the interleaving of the calls, the cache entry of a model is
\* the conclusive outcome written last for it, there is no entry for a model
\* without one, and every call that probed returns the outcome of its own
\* probe.
C36_LastWriterWins ==
    /\ DOMAIN modelCache = DOMAIN Wrote
    /\ \A m \in DOMAIN modelCache : modelCache[m].available = Wrote[m]
    /\ (lastOp.op = "isModelAvailable" /\ lastOp.probed)
           => lastOp.ret = (lastOp.outcome = "ok")

\* of two overlapping probes of one model, begun when the cache had no entry
\* of it, one found it available and the other, ending later, found it
\* rejected: the entry says rejected
C36_Witness ==
    /\ lastOp.op = "isModelAvailable" /\ lastOp.probed /\ lastOp.overlapped
    /\ inflight = <<>>
    /\ lastOp.outcome = "rejected"
    /\ ~lastOp.at.hadEntry
    /\ lastOp.prior.timestamp # 0 /\ lastOp.prior.available
    /\ ~modelCache[lastOp.model].available

----------------------------------------------------------------------------
(* Properties of the version lookups of a build *)

\* C35: the version is looked up by running the tool at most once in a build:
\* after one version probe the later capability checks of the build, all made
\* within 5 minutes, are answered from the cached version.
C35_VersionProbedOnce ==
    Built => Occurrences(build.calls, "getCodexVersion") <= 1

----------------------------------------------------------------------------
(* Properties of the errors of timed-out executions *)

\* C37: whenever the process result has ok = false and timedOut = true, the
\* Error that executeCodexCLI or executeCodex throws is classified TIMEOUT and
\* is retryable, whatever stderr holds.
C37_TimedOutIsTimeout ==
    (lastOp.op = "executionFails" /\ lastOp.result.timedOut /\ lastOp.threw)
        => (lastOp.ret = ErrorCategory.TIMEOUT /\ lastOp.retryable)

----------------------------------------------------------------------------
(* Properties of ask-codex calls that overlap other tool calls *)

\* C39: right after an ask-codex call with a session id completes with a
\* conversation id in its output, getCodexConversationId of that session
\* returns that id, whatever calls ran while it was suspended.
C39_NoLostUpdate ==
    (lastOp.op = "ask-codex:completed" /\ lastOp.parsed # "")
        => getCodexConversationId(sessionStore, lastOp.id, now).ret.codexConversationId
               = lastOp.parsed

\* C40: in every state of the store, under any interleaving of ask-codex,
\* list-sessions and health calls, every stored session has a workspaceId that
\* is not empty and is the hash generateWorkspaceId derives from a working
\* directory, the same hash for the same (repository, head, path).
C40_WorkspaceIdDerived ==
    \A i \in 1..Len(sessionStore) :
        /\ sessionStore[i].workspaceId # ""
        /\ \E dir \in WorkDirs :
               sessionStore[i].workspaceId = generateWorkspaceId(dir, GitHead)

====
